---- MODULE Spec2Model ----
(***************************************************************************)
(* Voice-activity-detection and speech-segmentation pipeline of ndt.cpp.   *)
(*                                                                         *)
(* Components (one record-valued variable each):                           *)
(*   gate  - SpeechGate              (test/AudioCapture/SpeechGate.cpp)    *)
(*   cal   - NoiseCalibrator         (test/AudioCapture/NoiseCalibrator.cpp)*)
(*   seg   - AudioSegmentBuffer   (test/AudioCapture/AudioSegmentBuffer.cpp)*)
(*   rmsAn - RMSAnalyzer             (test/AudioCapture/RMSAnalyzer.cpp)   *)
(*   orch  - AudioCaptureOrchestrator                                      *)
(*                       (test/AudioCapture/AudioCaptureOrchestrator.cpp)  *)
(*   proc  - AudioProcessorService                                         *)
(*           (src/Services/AudioProcessorService/AudioProcessorService.cpp)*)
(*   stt   - STTService          (src/Services/STTService/STTService.cpp)  *)
(*   ring  - AudioCaptureService ring buffer                               *)
(*           (src/Services/AudioCaptureService/AudioCaptureService.cpp)    *)
(*                                                                         *)
(* Units.  Time is in milliseconds.  RMS and noise-floor values are in     *)
(* millionths (1e-6) of full scale, so 0.0001f is 100; the multipliers     *)
(* 2.5 and 1.5 are kept as 25 and 15 tenths and every comparison against a *)
(* threshold is made on values scaled by 10.  Float rounding is not        *)
(* modelled.  Samples are int16 values; a float sample s of the service    *)
(* pipeline is kept as s * 32768.                                          *)
(***************************************************************************)
EXTENDS Integers, Sequences, FiniteSets, TLC

VARIABLES
    now,        \* std::chrono::steady_clock::now(), ms
    gate,       \* SpeechGate fields
    gateHist,   \* history of the calls made on the gate (not program state)
    ring,       \* AudioCaptureService ring-buffer fields
    ringHist,   \* history of the calls made on the ring buffer (not program state)
    cal,        \* NoiseCalibrator fields
    calHist,    \* history of the calls made on the calibrator (not program state)
    seg,        \* AudioSegmentBuffer fields
    segHist,    \* history of the calls made on the segment buffer (not program state)
    rmsAn,      \* RMSAnalyzer fields
    orch,       \* AudioCaptureOrchestrator fields (its components are the above)
    orchHist,   \* segments handed to the segment-ready callback (not program state)
    proc,       \* AudioProcessorService fields
    procHist,   \* chunks the processor handed to STTService::Transcribe (not program state)
    stt,        \* STTService fields and the positions of the threads inside it
    sttHist,    \* history of the calls made on the STT service (not program state)
    e2e,        \* the end-to-end scenario being played and its position
    conv,       \* a float sample on its way to 16 bits, and its converted value
    rmsHist     \* samples given to the RMS analyzer and its last result (not program state)

gateVars == <<gate, gateHist>>
ringVars == <<ring, ringHist>>
calVars == <<cal, calHist>>
segVars == <<seg, segHist>>
orchVars == <<rmsAn, orch, orchHist>>
procVars == <<proc, procHist>>
sttVars == <<stt, sttHist>>
vars == <<now, gate, gateHist, ring, ringHist, cal, calHist, seg, segHist,
          rmsAn, orch, orchHist, proc, procHist, stt, sttHist, e2e, conv, rmsHist>>

Max(a, b) == IF a >= b THEN a ELSE b
Min(a, b) == IF a <= b THEN a ELSE b

(***************************************************************************)
(* Bounds of the model                                                     *)
(***************************************************************************)
BootUptime == 1000       \* clock reading (ms since its epoch) at construction
MaxTime == 1600          \* the clock is not advanced past BootUptime + MaxTime
SampleRate == 100        \* samples per second (44100 in the code)
MaxFed == 16             \* samples fed to a segment buffer driven on its own
MaxObservations == 3     \* RMS observations collected per calibration
RingCapacity == 3        \* ringCapacity_ after Start() (44100 * 5 in the code)
MaxWritten == 8          \* samples written to the ring per Start()

(***************************************************************************)
(* SpeechGate                                                              *)
(***************************************************************************)
NoTime == 0                           \* steady_clock::time_point{}, the clock's epoch
speechThresholdMultiplier10 == 25     \* 2.5f
silenceThresholdMultiplier10 == 15    \* 1.5f
speechStartHoldMs == 200
speechEndHoldMs == 500
MinSpeechThreshold == 100             \* 0.0001f
MinSilenceThreshold == 50             \* 0.00005f
MaxDeltaMs == 1000

GateInit ==
    [speechStartHoldMs |-> speechStartHoldMs,
     speechEndHoldMs |-> speechEndHoldMs,
     state |-> "SILENCE", isSpeaking |-> FALSE,
     speechTimeAccumulatorMs |-> 0, silenceTimeAccumulatorMs |-> 0,
     lastUpdateTime |-> NoTime]

\* thresholds, times ten
speechThreshold10(noiseFloor) ==
    Max(noiseFloor * speechThresholdMultiplier10, 10 * MinSpeechThreshold)
silenceThreshold10(noiseFloor) ==
    Max(noiseFloor * silenceThresholdMultiplier10, 10 * MinSilenceThreshold)

AboveSpeech(rms, noiseFloor) == 10 * rms >= speechThreshold10(noiseFloor)
BelowSilence(rms, noiseFloor) == 10 * rms < silenceThreshold10(noiseFloor)

\* mutant: the elapsed time is not capped
deltaTimeMs_Uncapped(g, t) ==
    IF g.lastUpdateTime # NoTime THEN t - g.lastUpdateTime ELSE 0

deltaTimeMs(g, t) ==
    IF g.lastUpdateTime # NoTime THEN Min(t - g.lastUpdateTime, MaxDeltaMs) ELSE 0

transitionToSpeech(g) ==
    [g EXCEPT !.state = "SPEECH", !.isSpeaking = TRUE,
              !.speechTimeAccumulatorMs = 0, !.silenceTimeAccumulatorMs = 0]

transitionToSilence(g) ==
    [g EXCEPT !.state = "SILENCE", !.isSpeaking = FALSE,
              !.speechTimeAccumulatorMs = 0, !.silenceTimeAccumulatorMs = 0]

GateResult(g, ev) == [gate |-> g, changed |-> ev # "none", event |-> ev]

\* mutant: the band between the thresholds counts as speech
updateInSilence_BandAccumulates(g, rms, noiseFloor, d) ==
    IF ~BelowSilence(rms, noiseFloor)
    THEN LET g2 == [g EXCEPT !.speechTimeAccumulatorMs = @ + d]
         IN  IF g2.speechTimeAccumulatorMs >= g2.speechStartHoldMs
             THEN GateResult(transitionToSpeech(g2), "start")
             ELSE GateResult(g2, "none")
    ELSE GateResult([g EXCEPT !.speechTimeAccumulatorMs = 0], "none")

\* mutant: anything under the speech threshold clears the speech time
updateInSilence_BandDecays(g, rms, noiseFloor, d) ==
    IF AboveSpeech(rms, noiseFloor)
    THEN LET g2 == [g EXCEPT !.speechTimeAccumulatorMs = @ + d]
         IN  IF g2.speechTimeAccumulatorMs >= g2.speechStartHoldMs
             THEN GateResult(transitionToSpeech(g2), "start")
             ELSE GateResult(g2, "none")
    ELSE GateResult([g EXCEPT !.speechTimeAccumulatorMs = 0], "none")

\* the SILENCE branch of update()
updateInSilence(g, rms, noiseFloor, d) ==
    IF AboveSpeech(rms, noiseFloor)
    THEN LET g2 == [g EXCEPT !.speechTimeAccumulatorMs = @ + d]
         IN  IF g2.speechTimeAccumulatorMs >= g2.speechStartHoldMs
             THEN GateResult(transitionToSpeech(g2), "start")
             ELSE GateResult(g2, "none")
    ELSE IF BelowSilence(rms, noiseFloor)
         THEN GateResult([g EXCEPT !.speechTimeAccumulatorMs = 0], "none")
         ELSE GateResult(g, "none")

\* mutant: the end hold is compared with > instead of >=
updateInSpeech_StrictHold(g, rms, noiseFloor, d) ==
    IF BelowSilence(rms, noiseFloor)
    THEN LET g2 == [g EXCEPT !.silenceTimeAccumulatorMs = @ + d]
         IN  IF g2.silenceTimeAccumulatorMs > g2.speechEndHoldMs
             THEN GateResult(transitionToSilence(g2), "end")
             ELSE GateResult(g2, "none")
    ELSE IF AboveSpeech(rms, noiseFloor)
         THEN GateResult([g EXCEPT !.silenceTimeAccumulatorMs = 0], "none")
         ELSE GateResult(g, "none")

\* the SPEECH branch of update()
updateInSpeech(g, rms, noiseFloor, d) ==
    IF BelowSilence(rms, noiseFloor)
    THEN LET g2 == [g EXCEPT !.silenceTimeAccumulatorMs = @ + d]
         IN  IF g2.silenceTimeAccumulatorMs >= g2.speechEndHoldMs
             THEN GateResult(transitionToSilence(g2), "end")
             ELSE GateResult(g2, "none")
    ELSE IF AboveSpeech(rms, noiseFloor)
         THEN GateResult([g EXCEPT !.silenceTimeAccumulatorMs = 0], "none")
         ELSE GateResult(g, "none")

\* SpeechGate::update(rms, noiseFloor) called at time t
GateUpdate(g, rms, noiseFloor, t) ==
    IF noiseFloor <= 0
    THEN GateResult(g, "none")
    ELSE LET d  == deltaTimeMs(g, t)
             g1 == [g EXCEPT !.lastUpdateTime = t]
         IN  IF g1.state = "SILENCE"
             THEN updateInSilence(g1, rms, noiseFloor, d)
             ELSE updateInSpeech(g1, rms, noiseFloor, d)

\* SpeechGate::reset()
GateReset(g) ==
    [g EXCEPT !.state = "SILENCE", !.isSpeaking = FALSE,
              !.speechTimeAccumulatorMs = 0, !.silenceTimeAccumulatorMs = 0,
              !.lastUpdateTime = NoTime]

(***************************************************************************)
(* History of the gate's ticks.  A "run above" is a maximal sequence of    *)
(* counted update() ticks, the first made in SILENCE, each with            *)
(* rms >= speechThreshold; a "run below" is the same in SPEECH with        *)
(* rms < silenceThreshold.  The history sums the per-tick deltas of the    *)
(* run and counts the events fired in it.                                  *)
(***************************************************************************)
NoRun == [active |-> FALSE, fresh |-> FALSE, ms |-> 0, events |-> 0]

\* aboveMs: the deltas of the ticks made in Silence with rms >= speechThreshold
\* since the last tick with rms < silenceThreshold, transition or reset();
\* prevTick: the time of the last counted tick since construction or reset(),
\* if there was one; first: the last call was the first counted tick since then;
\* lastEvent: the callback fired last, over the gate's whole life
GateHistInit ==
    [op |-> "init", rms |-> 0, noiseFloor |-> 0, event |-> "none",
     above |-> NoRun, below |-> NoRun,
     aboveMs |-> 0, prevTick |-> <<>>, first |-> FALSE,
     lastEvent |-> "none"]

GateHistAboveMs(h, g, rms, noiseFloor, d, res) ==
    IF res.event # "none" \/ g.state # "SILENCE" THEN 0
    ELSE IF AboveSpeech(rms, noiseFloor) THEN h.aboveMs + d
    ELSE IF BelowSilence(rms, noiseFloor) THEN 0
    ELSE h.aboveMs

RunStep(run, inRun, startState, g, acc, d, fired) ==
    IF ~inRun THEN NoRun
    ELSE IF run.active
         THEN [run EXCEPT !.ms = @ + d, !.events = @ + (IF fired THEN 1 ELSE 0)]
         ELSE IF g.state = startState
              THEN [active |-> TRUE, fresh |-> (acc = 0), ms |-> d,
                    events |-> IF fired THEN 1 ELSE 0]
              ELSE NoRun

GateHistUpdate(h, g, rms, noiseFloor, t, res) ==
    IF noiseFloor <= 0
    THEN [h EXCEPT !.op = "ignored", !.rms = rms, !.noiseFloor = noiseFloor,
                   !.event = "none"]
    ELSE LET d == deltaTimeMs(g, t)
         IN  [op |-> "update", rms |-> rms, noiseFloor |-> noiseFloor,
              event |-> res.event,
              above |-> RunStep(h.above, AboveSpeech(rms, noiseFloor), "SILENCE",
                                g, g.speechTimeAccumulatorMs, d,
                                res.event = "start"),
              below |-> RunStep(h.below, BelowSilence(rms, noiseFloor), "SPEECH",
                                g, g.silenceTimeAccumulatorMs, d,
                                res.event = "end"),
              aboveMs |-> GateHistAboveMs(h, g, rms, noiseFloor, d, res),
              prevTick |-> <<t>>,
              first |-> (h.prevTick = <<>>),
              lastEvent |-> IF res.event # "none" THEN res.event
                            ELSE h.lastEvent]

(***************************************************************************)
(* AudioCaptureService ring buffer.  Indices are 0-based as in the code;   *)
(* ringBuffer is a sequence, so slot i is ringBuffer[i + 1].  audioMutex   *)
(* names the thread holding audioMutex_; capturePc is the position of the  *)
(* capture thread (the device callback or the test feeder), startPc the    *)
(* position of the thread running Start().                                 *)
(***************************************************************************)
Zeros(n) == [i \in 1..n |-> 0]

\* AudioCaptureService::AudioCaptureService()
RingInit ==
    [initialized |-> FALSE, ringBuffer |-> <<>>, ringCapacity |-> 0,
     readIndex |-> 0, writeIndex |-> 0, available |-> 0,
     audioMutex |-> "none", capturePc |-> "idle", startPc |-> "idle"]

\* AudioCaptureService::Start(); ok: the capture device (or test feeder) came up
RingStart(r, ok) ==
    [r EXCEPT !.ringCapacity = RingCapacity, !.ringBuffer = Zeros(RingCapacity),
              !.readIndex = 0, !.writeIndex = 0, !.available = 0,
              !.initialized = r.initialized \/ ok]

\* AudioCaptureService::Start() statement by statement; none of them is
\* made under audioMutex_.  Lines 73-74
RingStart_capacity(r) ==
    [r EXCEPT !.ringCapacity = RingCapacity, !.ringBuffer = Zeros(RingCapacity),
              !.startPc = "readIndex"]
\* line 75
RingStart_readIndex(r) == [r EXCEPT !.readIndex = 0, !.startPc = "writeIndex"]
\* line 76
RingStart_writeIndex(r) == [r EXCEPT !.writeIndex = 0, !.startPc = "available"]
\* line 77
RingStart_available(r) == [r EXCEPT !.available = 0, !.startPc = "device"]
\* lines 79-200: the feeder thread or the capture device is started
RingStart_device(r, ok) ==
    [r EXCEPT !.initialized = r.initialized \/ ok, !.startPc = "idle"]

\* AudioCaptureService::Stop()
RingStop(r) ==
    IF ~r.initialized THEN r
    ELSE [r EXCEPT !.ringBuffer = <<>>, !.ringCapacity = 0, !.readIndex = 0,
                   !.writeIndex = 0, !.available = 0, !.initialized = FALSE]

\* mutant: a full buffer rejects the new sample instead of dropping the oldest
RingWriteOne_DropNewest(r, sample) ==
    IF r.available = r.ringCapacity THEN r
    ELSE [r EXCEPT !.ringBuffer[r.writeIndex + 1] = sample,
                   !.writeIndex = (@ + 1) % r.ringCapacity,
                   !.available = @ + 1]

\* one iteration of the loop of EnqueueAudioSamples
RingWriteOne(r, sample) ==
    LET r1 == IF r.available = r.ringCapacity
              THEN [r EXCEPT !.readIndex = (@ + 1) % r.ringCapacity,
                             !.available = @ - 1]
              ELSE r
    IN  [r1 EXCEPT !.ringBuffer[r1.writeIndex + 1] = sample,
                   !.writeIndex = (@ + 1) % r1.ringCapacity,
                   !.available = @ + 1]

RECURSIVE RingWriteAll(_, _)
RingWriteAll(r, samples) ==
    IF samples = <<>> THEN r
    ELSE RingWriteAll(RingWriteOne(r, Head(samples)), Tail(samples))

\* AudioCaptureService::EnqueueAudioSamples(samples, count), count = Len(samples)
EnqueueAudioSamples(r, samples) ==
    IF Len(samples) <= 0 THEN r
    ELSE IF r.ringCapacity = 0 THEN r
    ELSE RingWriteAll(r, samples)

RECURSIVE RingReadAll(_, _, _)
RingReadAll(r, n, out) ==
    IF n = 0 THEN [ring |-> r, ret |-> TRUE, out |-> out]
    ELSE RingReadAll([r EXCEPT !.readIndex = (@ + 1) % r.ringCapacity,
                               !.available = @ - 1],
                     n - 1, Append(out, r.ringBuffer[r.readIndex + 1]))

\* mutant: a short buffer hands out what it has
DequeueAudio_Partial(r, maxSamples) ==
    IF maxSamples <= 0 THEN [ring |-> r, ret |-> FALSE, out |-> <<>>]
    ELSE IF r.available < maxSamples
         THEN [RingReadAll(r, r.available, <<>>) EXCEPT !.ret = FALSE]
         ELSE RingReadAll(r, maxSamples, <<>>)

\* AudioCaptureService::DequeueAudio(out, maxSamples)
DequeueAudio(r, maxSamples) ==
    IF maxSamples <= 0 THEN [ring |-> r, ret |-> FALSE, out |-> <<>>]
    ELSE IF r.available < maxSamples
         THEN [ring |-> r, ret |-> FALSE, out |-> <<>>]
         ELSE RingReadAll(r, maxSamples, <<>>)

(***************************************************************************)
(* History of the ring: everything written since Start(), the unread       *)
(* samples as an unbounded-queue-with-eviction reference, and whether an   *)
(* overflow has happened with no successful read after it.                 *)
(***************************************************************************)
LastN(seq, n) ==
    IF Len(seq) <= n THEN seq ELSE SubSeq(seq, Len(seq) - n + 1, Len(seq))
DropN(seq, n) ==
    IF Len(seq) <= n THEN <<>> ELSE SubSeq(seq, n + 1, Len(seq))

RingHistInit ==
    [op |-> "init", n |-> 0, ret |-> FALSE, out |-> <<>>,
     written |-> <<>>, unread |-> <<>>, overflowed |-> FALSE]

\* the samples of one capture frame: numbered in write order
Frame(first, count) == [i \in 1..count |-> first + i]

(***************************************************************************)
(* NoiseCalibrator.  The mean is rounded down to the model's unit.         *)
(***************************************************************************)
calibrationDurationMs == 300
NoiseFloorEpsilon == 1                \* 1e-6f

RECURSIVE SumSeq(_)
SumSeq(seq) == IF seq = <<>> THEN 0 ELSE Head(seq) + SumSeq(Tail(seq))

\* NoiseCalibrator::NoiseCalibrator(); calibrationStartTime_ is the epoch
CalInit ==
    [rmsSamples |-> <<>>, noiseFloor |-> 0, calibrated |-> FALSE,
     calibrationStartTime |-> NoTime]

\* NoiseCalibrator::startCalibration() at time t
startCalibration(c, t) ==
    [c EXCEPT !.rmsSamples = <<>>, !.noiseFloor = 0, !.calibrated = FALSE,
              !.calibrationStartTime = t]

\* NoiseCalibrator::computeNoiseFloor()
computeNoiseFloor(c) ==
    IF c.rmsSamples = <<>>
    THEN [c EXCEPT !.noiseFloor = NoiseFloorEpsilon, !.calibrated = TRUE]
    ELSE LET avgRms == SumSeq(c.rmsSamples) \div Len(c.rmsSamples)
         IN  [c EXCEPT !.noiseFloor = IF avgRms < NoiseFloorEpsilon
                                      THEN NoiseFloorEpsilon ELSE avgRms,
                       !.calibrated = TRUE]

\* mutant: the value of the locking call is part of the mean
addRMSValue_CountsLockingValue(c, rms, t) ==
    IF c.calibrated THEN [cal |-> c, ret |-> TRUE]
    ELSE IF t - c.calibrationStartTime >= calibrationDurationMs
         THEN [cal |-> computeNoiseFloor([c EXCEPT !.rmsSamples = Append(@, rms)]),
               ret |-> TRUE]
         ELSE [cal |-> [c EXCEPT !.rmsSamples = Append(@, rms)], ret |-> FALSE]

\* mutant: the floor keeps adapting after calibration
addRMSValue_KeepsAdapting(c, rms, t) ==
    IF t - c.calibrationStartTime >= calibrationDurationMs
    THEN [cal |-> computeNoiseFloor([c EXCEPT !.rmsSamples = Append(@, rms)]),
          ret |-> TRUE]
    ELSE [cal |-> [c EXCEPT !.rmsSamples = Append(@, rms)], ret |-> FALSE]

\* NoiseCalibrator::addRMSValue(rms) at time t
addRMSValue(c, rms, t) ==
    IF c.calibrated THEN [cal |-> c, ret |-> TRUE]
    ELSE IF t - c.calibrationStartTime >= calibrationDurationMs
         THEN [cal |-> computeNoiseFloor(c), ret |-> TRUE]
         ELSE [cal |-> [c EXCEPT !.rmsSamples = Append(@, rms)], ret |-> FALSE]

\* NoiseCalibrator::reset()
CalReset(c) ==
    [c EXCEPT !.rmsSamples = <<>>, !.noiseFloor = 0, !.calibrated = FALSE]

\* collected: the values of the addRMSValue calls that returned false since
\* the last startCalibration() or reset()
CalHistInit ==
    [op |-> "init", rms |-> 0, ret |-> FALSE, wasCalibrated |-> FALSE,
     collected |-> <<>>]

(***************************************************************************)
(* AudioSegmentBuffer                                                      *)
(***************************************************************************)
prePaddingMs == 100
postPaddingMs == 200

\* AudioSegmentBuffer::samplesForDuration
samplesForDuration(durationMs) == (SampleRate * durationMs) \div 1000

\* AudioSegmentBuffer::AudioSegmentBuffer()
SegInit ==
    [buffer |-> <<>>, prePaddingBuffer |-> <<>>, segmentReady |-> FALSE,
     wasSpeaking |-> FALSE, totalSamplesCollected |-> 0]

\* mutant: the pre-padding is put behind the segment
addPrePadding_Appends(b) ==
    IF b.prePaddingBuffer = <<>> THEN b
    ELSE [b EXCEPT !.buffer = @ \o b.prePaddingBuffer, !.prePaddingBuffer = <<>>]

\* AudioSegmentBuffer::addPrePadding()
addPrePadding(b) ==
    IF b.prePaddingBuffer = <<>> THEN b
    ELSE [b EXCEPT !.buffer = b.prePaddingBuffer \o @, !.prePaddingBuffer = <<>>]

\* AudioSegmentBuffer::addPostPadding(): empty in the code
addPostPadding(b) == b

\* AudioSegmentBuffer::addSamples(samples, numSamples, isSpeaking)
addSamples(b, samples, isSpeaking) ==
    IF isSpeaking
    THEN LET b1 == [b EXCEPT !.buffer = @ \o samples,
                             !.totalSamplesCollected = @ + Len(samples)]
             b2 == IF ~b1.wasSpeaking /\ b1.prePaddingBuffer # <<>>
                   THEN addPrePadding(b1) ELSE b1
         IN  [b2 EXCEPT !.wasSpeaking = TRUE]
    ELSE LET paddingSize == samplesForDuration(prePaddingMs)
             b1 == IF b.wasSpeaking
                   THEN [b EXCEPT !.prePaddingBuffer =
                                      LastN(b.buffer, Min(paddingSize, Len(b.buffer))),
                                  !.buffer = <<>>]
                   ELSE [b EXCEPT !.prePaddingBuffer = LastN(@ \o samples, paddingSize)]
         IN  [b1 EXCEPT !.wasSpeaking = FALSE]

\* AudioSegmentBuffer::finalizeSegment()
finalizeSegment(b) ==
    IF b.buffer = <<>> THEN [b EXCEPT !.segmentReady = FALSE]
    ELSE [addPostPadding(b) EXCEPT !.segmentReady = TRUE]

\* AudioSegmentBuffer::consumeSegment()
consumeSegment(b) ==
    IF ~b.segmentReady \/ b.buffer = <<>>
    THEN [seg |-> b, result |-> <<>>]
    ELSE [seg |-> [b EXCEPT !.buffer = <<>>, !.prePaddingBuffer = <<>>,
                            !.segmentReady = FALSE, !.wasSpeaking = FALSE],
          result |-> b.buffer]

\* AudioSegmentBuffer::clear()
SegClear(b) ==
    [b EXCEPT !.buffer = <<>>, !.prePaddingBuffer = <<>>,
              !.segmentReady = FALSE, !.wasSpeaking = FALSE]

\* history: the samples fed so far, the last call and its result, the
\* onset (pre-speech buffer, then the frame) of the utterance being
\* collected, whether a speaking frame was given since the last segment was
\* consumed or cleared, and the samples given after the last speaking frame
SegHistInit ==
    [op |-> "init", fed |-> 0, frame |-> <<>>, isSpeaking |-> FALSE,
     result |-> <<>>, onset |-> <<>>, spoke |-> FALSE, after |-> <<>>]

(***************************************************************************)
(* RMSAnalyzer.  The window holds the int16 samples; computeRMS yields the *)
(* RMS of the normalized samples in millionths, rounded down.              *)
(***************************************************************************)
windowDurationMs == 100

\* RMSAnalyzer::RMSAnalyzer(): windowSize_
windowSize == Max(1, (SampleRate * windowDurationMs) \div 1000)

RmsInit == [window |-> <<>>]

RECURSIVE ISqrtSearch(_, _, _)
ISqrtSearch(n, lo, hi) ==
    IF lo = hi THEN lo
    ELSE LET mid == (lo + hi + 1) \div 2
         IN  IF mid * mid <= n THEN ISqrtSearch(n, mid, hi)
                               ELSE ISqrtSearch(n, lo, mid - 1)
\* std::sqrt on an integer, rounded down
ISqrt(n) == ISqrtSearch(n, 0, 46340)

RECURSIVE SumSquares(_)
SumSquares(samples) ==
    IF samples = <<>> THEN 0
    ELSE Head(samples) * Head(samples) + SumSquares(Tail(samples))

\* sqrt(sumSquared / count) of samples normalized by 32768, in millionths
\* (1000000 / 32768 = 15625 / 512)
RmsOf(samples) ==
    (ISqrt(SumSquares(samples) \div Len(samples)) * 15625) \div 512

\* RMSAnalyzer::computeRMS()
computeRMS(a) ==
    IF Len(a.window) < windowSize THEN 0 ELSE RmsOf(a.window)

\* a window that, once full, keeps its oldest samples
RmsPushOne_KeepsOldest(a, sample) ==
    IF Len(a.window) >= windowSize THEN a
    ELSE [a EXCEPT !.window = Append(a.window, sample)]

\* one iteration of the loop of RMSAnalyzer::update
RmsPushOne(a, sample) ==
    LET w == Append(a.window, sample)
    IN  [a EXCEPT !.window = IF Len(w) > windowSize THEN Tail(w) ELSE w]

RECURSIVE RmsPushAll(_, _)
RmsPushAll(a, samples) ==
    IF samples = <<>> THEN a
    ELSE RmsPushAll(RmsPushOne(a, Head(samples)), Tail(samples))

\* RMSAnalyzer::update(samples, numSamples)
RmsUpdate(a, samples) ==
    LET a1 == RmsPushAll(a, samples) IN [rmsAn |-> a1, rms |-> computeRMS(a1)]

\* RMSAnalyzer::reset()
RmsReset(a) == [a EXCEPT !.window = <<>>]

\* the samples given to update() since construction or the last reset(),
\* the call made last and the value it returned
RmsHistInit == [observed |-> <<>>, op |-> "init", returned |-> 0]

(***************************************************************************)
(* AudioCaptureOrchestrator.  Its state is the record                      *)
(* [orch, rmsAn, cal, gate, seg]; the operators return the new state and   *)
(* the segment handed to onSegmentReady_ (<<>> when none was).             *)
(***************************************************************************)
OrchInit == [processing |-> FALSE]

OrchHistInit ==
    [op |-> "init", delivered |-> <<>>, lastSegment |-> <<>>, frames |-> 0,
     starts |-> 0, sinceStart |-> 0]

OrchState == [orch |-> orch, rmsAn |-> rmsAn, cal |-> cal, gate |-> gate, seg |-> seg]

\* AudioCaptureOrchestrator::start() at time t
OrchStart(st, t) ==
    [st EXCEPT !.orch.processing = TRUE,
               !.cal = startCalibration(st.cal, t),
               !.rmsAn = RmsReset(st.rmsAn),
               !.gate = GateReset(st.gate),
               !.seg = SegClear(st.seg)]

\* finalizeSegment(); if (hasSegment()) { consumeSegment(); deliver if non-empty }
FinalizeAndDeliver(b) ==
    LET b1 == finalizeSegment(b)
    IN  IF b1.segmentReady
        THEN LET res == consumeSegment(b1)
             IN  [seg |-> res.seg, delivered |-> res.result]
        ELSE [seg |-> b1, delivered |-> <<>>]

\* mutant: the segment is finalized but not handed to the callback
handleSpeechEnd_KeepsSegment(b) ==
    [seg |-> finalizeSegment(b), delivered |-> <<>>]

\* AudioCaptureOrchestrator::handleSpeechEnd()
handleSpeechEnd(b) == FinalizeAndDeliver(b)

\* AudioCaptureOrchestrator::stop()
OrchStop(st) ==
    LET st1 == [st EXCEPT !.orch.processing = FALSE]
    IN  IF st1.gate.isSpeaking
        THEN LET fin == FinalizeAndDeliver(st1.seg)
             IN  [st |-> [st1 EXCEPT !.seg = fin.seg], delivered |-> fin.delivered]
        ELSE [st |-> st1, delivered |-> <<>>]

\* AudioCaptureOrchestrator::processSamples(samples, numSamples) at time t
processSamples(st, samples, t) ==
    IF ~st.orch.processing \/ Len(samples) <= 0
    THEN [st |-> st, delivered |-> <<>>, rms |-> 0, gateCalled |-> FALSE,
          event |-> "none"]
    ELSE LET r     == RmsUpdate(st.rmsAn, samples)
             cal1  == IF ~st.cal.calibrated
                      THEN addRMSValue(st.cal, r.rms, t).cal ELSE st.cal
             gres  == IF cal1.calibrated
                      THEN GateUpdate(st.gate, r.rms, cal1.noiseFloor, t)
                      ELSE GateResult(st.gate, "none")
             fin   == IF gres.event = "end" THEN handleSpeechEnd(st.seg)
                      ELSE [seg |-> st.seg, delivered |-> <<>>]
             seg1  == addSamples(fin.seg, samples, gres.gate.isSpeaking)
         IN  [st |-> [st EXCEPT !.rmsAn = r.rmsAn, !.cal = cal1,
                                !.gate = gres.gate, !.seg = seg1],
              delivered |-> fin.delivered, rms |-> r.rms,
              gateCalled |-> cal1.calibrated, event |-> gres.event]

\* duration of a segment of n samples
DurationMs(n) == (n * 1000) \div SampleRate

(***************************************************************************)
(* AudioProcessorService.  Levels are in millionths of full scale; the     *)
(* buffers' capacities are the ones the constructor reserves.  mutex names *)
(* the thread holding mutex_; workerPc is the position of the thread that  *)
(* runs RunWorker() and buffer its local buffer.                           *)
(***************************************************************************)
kSilenceRms == 3500
kBufferMs == 20
kEndSilenceMs == 600
kTailMs == 200
kSampleRate == 44100
kWhisperSampleRate == 16000
kMaxChunkSeconds == 10
kMinChunkMs == 300
startMs == 60

bufferSamples == (SampleRate * kBufferMs) \div 1000
chunkCapacity == SampleRate * kMaxChunkSeconds
tailCapacity == (SampleRate * kTailMs) \div 1000
preSpeechCapacity == (SampleRate * 2) \div 10
minChunkSamples == (SampleRate * kMinChunkMs) \div 1000
maxChunkSamples == SampleRate * kMaxChunkSeconds

ProcInit ==
    [speaking |-> FALSE, silenceMs |-> 0, speechMs |-> 0, silentFlag |-> TRUE,
     running |-> FALSE, currentChunk |-> <<>>, tailBuffer |-> <<>>,
     preSpeechBuffer |-> <<>>, readyChunks |-> <<>>,
     mutex |-> "none", workerPc |-> "none", buffer |-> <<>>]

\* jobs: lengths of the chunks handed to Transcribe; run: the samples
\* dequeued since the onset of the utterance being collected; spoken: the run
\* up to its last non-silent frame; switches: changes between silent and
\* non-silent frames in the run; chunk, chunkSpoken: the last completed
\* chunk and the spoken run it was made from
ProcHistInit ==
    [op |-> "init", jobs |-> <<>>, dropped |-> 0, run |-> <<>>,
     spoken |-> <<>>, switches |-> 0, chunk |-> <<>>, chunkSpoken |-> <<>>]

\* AudioProcessorService::Start(): the worker thread is running afterwards
ProcStart(p) ==
    IF p.running THEN p ELSE [p EXCEPT !.running = TRUE, !.workerPc = "loop"]

\* AudioProcessorService::Stop(), after the worker is joined
ProcStop(p) ==
    [p EXCEPT !.running = FALSE, !.readyChunks = <<>>, !.currentChunk = <<>>,
              !.tailBuffer = <<>>, !.preSpeechBuffer = <<>>, !.speaking = FALSE,
              !.silenceMs = 0, !.speechMs = 0, !.silentFlag = TRUE,
              !.workerPc = "none", !.buffer = <<>>]

\* AudioProcessorService::Stop() step by step: line 62
ProcStop_running(p) == [p EXCEPT !.running = FALSE]
\* lines 63-65: join() returns once RunWorker has returned
ProcStop_join(p) == [p EXCEPT !.workerPc = "none", !.buffer = <<>>]
\* line 66
ProcStop_lock(p) == [p EXCEPT !.mutex = "host"]
\* lines 67-75
ProcStop_clear(p) == [ProcStop(p) EXCEPT !.mutex = "none"]

\* AudioProcessorService::AppendSamples on a buffer of the given capacity
AppendSamples(buffer, capacity, samples) ==
    IF Len(samples) <= 0 THEN buffer
    ELSE IF Len(buffer) + Len(samples) > capacity
         THEN LET available == capacity - Len(buffer)
              IN  IF available <= 0 THEN buffer
                  ELSE buffer \o SubSeq(samples, 1, available)
         ELSE buffer \o samples

ProcResult(p, chunk, should, wasDropped) ==
    [proc |-> p, completedChunk |-> chunk, shouldTranscribe |-> should,
     dropped |-> wasDropped]

\* RunWorker, not speaking (lines 124-144)
ProcNotSpeaking(p, buffer, bufferSilent) ==
    IF bufferSilent
    THEN ProcResult([p EXCEPT !.speechMs = 0, !.preSpeechBuffer = <<>>,
                              !.silentFlag = TRUE], <<>>, FALSE, FALSE)
    ELSE LET p1 == [p EXCEPT !.speechMs = @ + kBufferMs,
                             !.preSpeechBuffer =
                                 AppendSamples(@, preSpeechCapacity, buffer)]
             p2 == IF p1.speechMs >= startMs
                   THEN [p1 EXCEPT !.speaking = TRUE, !.silenceMs = 0,
                                   !.tailBuffer = <<>>,
                                   !.currentChunk =
                                       AppendSamples(<<>>, chunkCapacity,
                                                     p1.preSpeechBuffer),
                                   !.preSpeechBuffer = <<>>]
                   ELSE p1
         IN  ProcResult([p2 EXCEPT !.silentFlag = FALSE], <<>>, FALSE, FALSE)

\* RunWorker, speech ended (lines 161-182)
ProcSpeechEnd(p) ==
    LET chunk == AppendSamples(p.currentChunk, chunkCapacity, p.tailBuffer)
        p1    == [p EXCEPT !.currentChunk = <<>>, !.tailBuffer = <<>>,
                           !.speaking = FALSE, !.silenceMs = 0, !.speechMs = 0,
                           !.silentFlag = TRUE]
    IN  IF Len(chunk) < minChunkSamples \/ Len(chunk) > maxChunkSamples
        THEN ProcResult(p1, <<>>, FALSE, TRUE)
        ELSE IF chunk # <<>> THEN ProcResult(p1, chunk, TRUE, FALSE)
             ELSE ProcResult(p1, <<>>, FALSE, FALSE)

\* RunWorker, speaking (lines 146-185)
ProcSpeaking(p, buffer, bufferSilent) ==
    IF ~bufferSilent
    THEN ProcResult([p EXCEPT !.silenceMs = 0, !.tailBuffer = <<>>,
                              !.currentChunk =
                                  AppendSamples(@, chunkCapacity, buffer),
                              !.silentFlag = FALSE], <<>>, FALSE, FALSE)
    ELSE LET t1 == AppendSamples(p.tailBuffer, tailCapacity, buffer)
             t2 == IF Len(t1) > tailCapacity
                   THEN DropN(t1, Len(t1) - tailCapacity) ELSE t1
             p1 == [p EXCEPT !.silenceMs = @ + kBufferMs, !.tailBuffer = t2]
         IN  IF p1.silenceMs >= kEndSilenceMs
             THEN ProcSpeechEnd(p1)
             ELSE ProcResult([p1 EXCEPT !.silentFlag = FALSE], <<>>, FALSE, FALSE)

\* the body of the loop of RunWorker for one dequeued buffer (lines 110-187)
ProcessBuffer(p, buffer) ==
    LET bufferSilent == RmsOf(buffer) < kSilenceRms
    IN  IF ~p.speaking THEN ProcNotSpeaking(p, buffer, bufferSilent)
        ELSE ProcSpeaking(p, buffer, bufferSilent)

\* static_cast<int16_t>: the value modulo 2^16
ToInt16(v) == ((v + 32768) % 65536) - 32768

\* clamp to [-1, 1], std::lround(s * 32768), static_cast<int16_t>
FloatToPcm(v) == ToInt16(Max(-32768, Min(32768, v)))

\* linear interpolation of RunWorker (lines 196-209) for output index i
ResampleAt(chunk, i) ==
    LET idx  == (i * kSampleRate) \div kWhisperSampleRate
        frac == (i * kSampleRate) % kWhisperSampleRate
    IN  IF idx >= Len(chunk) - 1 THEN chunk[Len(chunk)]
        ELSE ((kWhisperSampleRate - frac) * chunk[idx + 1] + frac * chunk[idx + 2])
                 \div kWhisperSampleRate

\* std::round(size * kWhisperSampleRate / kSampleRate)
outCount(n) == (2 * n * kWhisperSampleRate + kSampleRate) \div (2 * kSampleRate)

\* the resampling and conversion of RunWorker (lines 189-219)
Dispatch(completedChunk) ==
    LET n == outCount(Len(completedChunk))
        toConvert == IF n > 0
                     THEN [i \in 1..n |-> ResampleAt(completedChunk, i - 1)]
                     ELSE completedChunk
    IN  [i \in 1..Len(toConvert) |-> FloatToPcm(toConvert[i])]

(***************************************************************************)
(* STTService.  Four threads act on it: the host thread that calls         *)
(* Start() and Stop(), the audio-processor thread that calls Transcribe(), *)
(* a caller of TranscribeBlocking(), and the worker thread running         *)
(* WorkerLoop().  Each thread's position is a field of stt; a step is one  *)
(* access to shared state (an atomic, or a section under a mutex).         *)
(* queueMutex, workerMutex and ctxMutex name the thread holding            *)
(* queueMutex_, workerMutex_ and ctxMutex_.  A recognition call            *)
(* (whisper_full) begins in one step and ends in a later one.  The queue   *)
(* holds the lengths of the queued PCM vectors; workers counts the worker  *)
(* threads created and not yet joined.  engine is the environment of the   *)
(* service: "no_model" - the model file is missing, too small or fails to  *)
(* load; "no_backend" - no compute backend is registered; "ok" otherwise.  *)
(* errorLines counts the 'unavailable' error lines printed, recognitions   *)
(* the recognition calls entered.                                          *)
(***************************************************************************)
SttInit ==
    [running |-> FALSE, workerFailed |-> FALSE, available |-> TRUE,
     loggedUnavailable |-> FALSE, ctx |-> FALSE, queue |-> <<>>,
     joinable |-> FALSE, queueMutex |-> "none", workerMutex |-> "none",
     ctxMutex |-> "none", workers |-> 0,
     engine |-> "ok", errorLines |-> 0, recognitions |-> 0,
     hostPc |-> "idle", procPc |-> "idle", procJob |-> 0,
     blockPc |-> "idle",
     workerPc |-> "none", workerJob |-> 0]

\* the members of the service, without the threads' positions and the
\* counters of the model
SttMembers(s) ==
    [running |-> s.running, workerFailed |-> s.workerFailed,
     available |-> s.available, loggedUnavailable |-> s.loggedUnavailable,
     ctx |-> s.ctx, queue |-> s.queue, joinable |-> s.joinable]

SttHistInit ==
    [op |-> "init", calls |-> 0, blockingCalls |-> 0, enqueued |-> <<>>,
     stopReturned |-> FALSE, inSession |-> FALSE, linesAtStart |-> 0,
     recognitionsAtStart |-> 0, startReturned |-> "none",
     call |-> [count |-> 0, inSession |-> FALSE],
     returned |-> [count |-> 0, inSession |-> FALSE, value |-> "none"],
     left |-> SttMembers(SttInit), stopAlone |-> FALSE]

\* condition_variable::notify_one / notify_all with at most one waiter: a
\* thread blocked in wait() is made runnable; otherwise nothing happens
Notify(s) == IF s.workerPc = "waiting" THEN [s EXCEPT !.workerPc = "wait"] ELSE s

\* STTService::Start(), line 150
SttStart_running(s) == [s EXCEPT !.running = TRUE, !.hostPc = "start_failed"]
\* line 151
SttStart_workerFailed(s) ==
    [s EXCEPT !.workerFailed = FALSE, !.hostPc = "start_available"]
\* line 152
SttStart_available(s) == [s EXCEPT !.available = TRUE, !.hostPc = "idle"]

\* STTService::Stop(), line 157
SttStop_running(s) == [s EXCEPT !.running = FALSE, !.hostPc = "stop_notify"]
\* line 158
SttStop_notify(s) == [Notify(s) EXCEPT !.hostPc = "stop_lock"]
\* lines 160-161: lock workerMutex_, test joinable()
SttStop_lock(s) ==
    IF s.joinable
    THEN [s EXCEPT !.workerMutex = "host", !.hostPc = "stop_join"]
    ELSE [s EXCEPT !.hostPc = "stop_clear"]
\* mutant: workerMutex_ stays locked for the rest of Stop()
SttStop_join_KeepsWorkerMutex(s) ==
    [s EXCEPT !.joinable = FALSE, !.workers = @ - 1, !.workerPc = "none",
              !.hostPc = "stop_clear"]
\* line 162: join() returns once WorkerLoop has returned
SttStop_join(s) ==
    [s EXCEPT !.joinable = FALSE, !.workers = @ - 1, !.workerPc = "none",
              !.workerMutex = "none", !.hostPc = "stop_clear"]
\* lines 165-168
SttStop_clear(s) == [s EXCEPT !.queue = <<>>, !.hostPc = "stop_free"]
\* lines 169-175
SttStop_free(s) ==
    [s EXCEPT !.ctx = FALSE, !.available = FALSE, !.loggedUnavailable = FALSE,
              !.hostPc = "idle"]

\* mutant: the error line is printed whatever the flag says
LogUnavailable_EveryTime(s) ==
    [s EXCEPT !.loggedUnavailable = TRUE, !.errorLines = @ + 1]

\* if (!loggedUnavailable_.exchange(true)) std::cerr << "[STT] ..." : the
\* 'unavailable' error line is printed when the flag was clear
LogUnavailable(s) ==
    IF s.loggedUnavailable THEN s
    ELSE [s EXCEPT !.loggedUnavailable = TRUE, !.errorLines = @ + 1]

\* STTService::Transcribe(const int16_t*, int), lines 201-208
SttTranscribe(s, count) ==
    IF count <= 0 THEN s
    ELSE [s EXCEPT !.procPc = "enqueue", !.procJob = count]
\* STTService::EnqueuePcm, lines 323-328
SttEnqueue_available(s) ==
    IF ~s.available
    THEN [LogUnavailable(s) EXCEPT !.procPc = "idle", !.procJob = 0]
    ELSE [s EXCEPT !.procPc = "ensure"]
\* STTService::EnsureWorkerStarted, lines 293-295
SttEnsure_check(s) ==
    IF ~s.running \/ s.workerFailed
    THEN [s EXCEPT !.procPc = "idle", !.procJob = 0]
    ELSE [s EXCEPT !.procPc = "ensure_locked"]
\* lines 296-316, under workerMutex_; spawned tells whether std::thread's
\* constructor succeeded
SttEnsure_locked(s, spawned) ==
    IF s.joinable THEN [s EXCEPT !.procPc = "push"]
    ELSE IF ~s.running THEN [s EXCEPT !.procPc = "idle", !.procJob = 0]
    ELSE IF spawned
         THEN [s EXCEPT !.joinable = TRUE, !.workers = @ + 1,
                        !.workerPc = "top", !.procPc = "push"]
         ELSE [s EXCEPT !.workerFailed = TRUE, !.running = FALSE,
                        !.procPc = "idle", !.procJob = 0]
\* STTService::EnqueuePcm, lines 333-337
SttEnqueue_push(s) ==
    [s EXCEPT !.queue = Append(@, s.procJob), !.procPc = "notify"]
\* line 338
SttEnqueue_notify(s) == [Notify(s) EXCEPT !.procPc = "idle", !.procJob = 0]

\* STTService::WorkerLoop, line 343
SttWorker_top(s) ==
    IF s.running THEN [s EXCEPT !.workerPc = "wait"]
    ELSE [s EXCEPT !.workerPc = "exited"]
\* lines 346-347: queueMutex_ is taken (on entry or on wake-up) and the
\* predicate of wait() is evaluated
SttWorker_wait(s) ==
    IF ~s.running \/ s.queue # <<>>
    THEN [s EXCEPT !.queueMutex = "worker", !.workerPc = "after_wait"]
    ELSE [s EXCEPT !.queueMutex = "worker", !.workerPc = "block"]
\* line 347: the predicate was false; wait() releases queueMutex_ and blocks
SttWorker_block(s) == [s EXCEPT !.queueMutex = "none", !.workerPc = "waiting"]
\* lines 348-353; front() of an empty deque is undefined and yields any job
SttWorker_afterWait(s, undefinedJob) ==
    IF ~s.running
    THEN [s EXCEPT !.queueMutex = "none", !.workerPc = "exited"]
    ELSE IF s.queue = <<>>
         THEN [s EXCEPT !.queueMutex = "none", !.workerJob = undefinedJob,
                        !.workerPc = IF undefinedJob = 0 THEN "top" ELSE "process"]
         ELSE [s EXCEPT !.queueMutex = "none", !.workerJob = Head(s.queue),
                        !.queue = Tail(@), !.workerPc = "process"]
\* STTService::EnsureContextLocked(); modelOk tells whether a model file of
\* sufficient size is found and loads
EnsureContextLocked(s, modelOk) ==
    IF s.ctx THEN [stt |-> s, ret |-> TRUE]
    ELSE IF ~modelOk
         THEN [stt |-> LogUnavailable([s EXCEPT !.available = FALSE]),
               ret |-> FALSE]
         ELSE [stt |-> [s EXCEPT !.ctx = TRUE, !.available = TRUE,
                                 !.loggedUnavailable = FALSE],
               ret |-> TRUE]

\* ggml_backend_dev_count() == 0 (lines 379-385 and 233-239)
NoBackend(s) == LogUnavailable([s EXCEPT !.available = FALSE])

\* mutant: the worker enters the recognition call without ctxMutex_
SttWorker_process_NoCtxMutex(s, outcome) ==
    LET e == EnsureContextLocked(s, outcome # "no_model")
    IN  IF ~e.ret THEN [e.stt EXCEPT !.workerJob = 0, !.workerPc = "top"]
        ELSE IF outcome = "no_backend"
             THEN [NoBackend(e.stt) EXCEPT !.workerJob = 0, !.workerPc = "top"]
             ELSE [e.stt EXCEPT !.recognitions = @ + 1,
                                !.workerPc = "recognizing"]

\* WorkerLoop lines 371-401: ctxMutex_ is taken, the context ensured, the
\* backends counted and whisper_full entered.  outcome: "no_model" - the
\* model cannot be loaded; "no_backend" - no compute backend; "ok" otherwise
SttWorker_process(s, outcome) ==
    LET e == EnsureContextLocked(s, outcome # "no_model")
    IN  IF ~e.ret THEN [e.stt EXCEPT !.workerJob = 0, !.workerPc = "top"]
        ELSE IF outcome = "no_backend"
             THEN [NoBackend(e.stt) EXCEPT !.workerJob = 0, !.workerPc = "top"]
             ELSE [e.stt EXCEPT !.ctxMutex = "worker", !.recognitions = @ + 1,
                                !.workerPc = "recognizing"]

\* WorkerLoop lines 401-425: whisper_full returns or throws, the transcript
\* is printed, ctxMutex_ is released
SttWorker_recognized(s) ==
    [s EXCEPT !.ctxMutex = "none", !.workerJob = 0, !.workerPc = "top"]

\* STTService::TranscribeBlocking, lines 210-213
SttBlocking_call(s, count) ==
    IF count <= 0 THEN s ELSE [s EXCEPT !.blockPc = "lock"]

\* TranscribeBlocking lines 228-255: as the worker does
SttBlocking_locked(s, outcome) ==
    LET e == EnsureContextLocked(s, outcome # "no_model")
    IN  IF ~e.ret THEN [e.stt EXCEPT !.blockPc = "idle"]
        ELSE IF outcome = "no_backend"
             THEN [NoBackend(e.stt) EXCEPT !.blockPc = "idle"]
             ELSE [e.stt EXCEPT !.ctxMutex = "caller", !.recognitions = @ + 1,
                                !.blockPc = "recognizing"]

\* TranscribeBlocking lines 255-289: whisper_full returns, or throws and the
\* handler marks the service unavailable
SttBlocking_recognized(s, threw) ==
    IF threw
    THEN LogUnavailable([s EXCEPT !.ctxMutex = "none", !.blockPc = "idle",
                                  !.available = FALSE])
    ELSE [s EXCEPT !.ctxMutex = "none", !.blockPc = "idle"]

(***************************************************************************)
(* The end-to-end scenario: a lead of silence, a loud tone, a tail of       *)
(* silence, played as frames of bufferSamples samples, one every kBufferMs *)
(* milliseconds.                                                           *)
(***************************************************************************)
LeadSilenceMs == 300
ToneMs == 250
TailSilenceMs == 700

LeadSamples == (SampleRate * LeadSilenceMs) \div 1000

\* lead: the number of samples of the scenario that come before the tone
E2EInit ==
    [phase |-> "idle", tone |-> 0, noise |-> 0, delay |-> 0, fed |-> 0,
     lead |-> LeadSamples]

ToneSamples == (SampleRate * ToneMs) \div 1000
TailSamples == (SampleRate * TailSilenceMs) \div 1000
ScriptLen == LeadSamples + ToneSamples + TailSamples

\* sample i of the scenario: a square wave of the scenario's tone amplitude
\* inside the tone, of its noise amplitude outside
ScriptSample(e, i) ==
    LET sign == IF i % 2 = 0 THEN 1 ELSE -1
    IN  IF i > e.lead /\ i <= e.lead + ToneSamples
        THEN sign * e.tone ELSE sign * e.noise

\* the next frame of the scenario; the last one may be short
ScriptFrame(e) ==
    LET count == Min(bufferSamples, ScriptLen - e.fed)
    IN  [i \in 1..count |-> ScriptSample(e, e.fed + i)]

(***************************************************************************)
(* SpecGate: a SpeechGate driven by arbitrary callers                      *)
(***************************************************************************)
GateDeltas == {0, 100, 600, 1200}
GateRmsValues == {0, 70, 2000, 3000}
GateNoiseFloors == {0, 1, 1000}

\* no sample converted yet; s is the float sample times 32768
ConvInit == [s |-> 0, pcm |-> 0, by |-> "none"]

\* the state after construction of every component but the gate, the STT
\* service and the scenario
InitOthers ==
    /\ now = BootUptime
    /\ gateHist = GateHistInit
    /\ ring = RingInit
    /\ ringHist = RingHistInit
    /\ cal = CalInit
    /\ calHist = CalHistInit
    /\ seg = SegInit
    /\ segHist = SegHistInit
    /\ rmsAn = RmsInit
    /\ rmsHist = RmsHistInit
    /\ orch = OrchInit
    /\ orchHist = OrchHistInit
    /\ proc = ProcInit
    /\ procHist = ProcHistInit
    /\ sttHist = SttHistInit

\* the state after construction of every component but the STT service
InitRest == gate = GateInit /\ e2e = E2EInit /\ InitOthers

\* the state after construction of every component
InitAll == InitRest /\ stt = SttInit /\ conv = ConvInit

InitGate == InitAll

SpeechGate_update ==
    \E dt \in GateDeltas, rms \in GateRmsValues, noiseFloor \in GateNoiseFloors :
        /\ now + dt <= BootUptime + MaxTime
        /\ now' = now + dt
        /\ LET res == GateUpdate(gate, rms, noiseFloor, now + dt)
           IN  /\ gate' = res.gate
               /\ gateHist' = GateHistUpdate(gateHist, gate, rms, noiseFloor,
                                             now + dt, res)
        /\ UNCHANGED <<conv, rmsHist, ringVars, calVars, segVars, orchVars, procVars, sttVars, e2e>>

SpeechGate_reset ==
    \E dt \in GateDeltas :
        /\ now + dt <= BootUptime + MaxTime
        /\ now' = now + dt
        /\ gate' = GateReset(gate)
        /\ gateHist' = [GateHistInit EXCEPT !.op = "reset",
                                            !.lastEvent = gateHist.lastEvent]
        /\ UNCHANGED <<conv, rmsHist, ringVars, calVars, segVars, orchVars, procVars, sttVars, e2e>>

NextGate == SpeechGate_update \/ SpeechGate_reset

SpecGate == InitGate /\ [][NextGate]_vars

(***************************************************************************)
(* Claims about SpeechGate (checked under SpecGate)                        *)
(***************************************************************************)
InBand(rms, noiseFloor) ==
    ~AboveSpeech(rms, noiseFloor) /\ ~BelowSilence(rms, noiseFloor)

RunFiresOnce(run, holdMs, stateAfter) ==
    run.active =>
        /\ run.events <= 1
        /\ (run.ms >= holdMs => run.events = 1)
        /\ (run.fresh /\ run.ms < holdMs => run.events = 0)
        /\ (run.events = 1 <=> gate.state = stateAfter)

\* C1: a run of ticks with rms >= speechThreshold that starts in Silence fires
\* the speech-start event exactly once, on the first tick at which the summed
\* per-tick deltas reach speechStartHoldMs (not before, when the accumulator
\* was 0 at the start of the run; never a second time while the run lasts);
\* symmetrically a run with rms < silenceThreshold that starts in Speech fires
\* exactly one speech-end event once the deltas reach speechEndHoldMs.
C1_SustainedRunFiresExactlyOnce ==
    /\ RunFiresOnce(gateHist.above, speechStartHoldMs, "SPEECH")
    /\ RunFiresOnce(gateHist.below, speechEndHoldMs, "SILENCE")

\* C1 witness: a run below the silence threshold, begun in Speech with a zero
\* accumulator, has lasted the end hold exactly and has fired its one event.
C1_Witness ==
    /\ gateHist.below.active /\ gateHist.below.fresh
    /\ gateHist.below.ms = speechEndHoldMs
    /\ gateHist.below.events = 1
    /\ gate.state = "SILENCE"

\* C2: an update() tick whose rms lies in the band
\* silenceThreshold <= rms < speechThreshold never changes the gate's state
\* and fires no event, in Silence or in Speech, whatever the accumulators hold.
C2_BandTickKeepsState ==
    [][ (gateHist'.op = "update" /\ InBand(gateHist'.rms, gateHist'.noiseFloor))
        => /\ gate'.state = gate.state
           /\ gate'.isSpeaking = gate.isSpeaking
           /\ gateHist'.event = "none" ]_vars

\* C2 witness: a band tick was made in Speech while silence time was held.
C2_Witness ==
    /\ gateHist.op = "update"
    /\ InBand(gateHist.rms, gateHist.noiseFloor)
    /\ gate.state = "SPEECH"
    /\ gate.silenceTimeAccumulatorMs > 0
    /\ gate.silenceTimeAccumulatorMs + MaxDeltaMs >= speechEndHoldMs

\* the time a counted tick made now adds to an accumulator, as the claims
\* state it: the time since the previous counted tick, at most MaxDeltaMs,
\* and nothing on the first tick after construction or reset()
TickDelta ==
    IF gateHist.prevTick = <<>> THEN 0
    ELSE Min(now' - gateHist.prevTick[1], MaxDeltaMs)

\* C22: on a counted tick, in Silence rms < silenceThreshold sets speechMs to
\* 0 and a band tick leaves it as it was; in Speech rms >= speechThreshold
\* sets silenceMs to 0 and a band tick leaves it as it was; every change of
\* state sets both accumulators to 0; and speech starts only on a tick with
\* rms >= speechThreshold at which the above-threshold time accumulated since
\* the last below-silence-threshold tick reaches speechStartHoldMs.
C22_AccumulatorRules ==
    [][ /\ gateHist'.op = "update" =>
            /\ (gate.state = "SILENCE"
                    /\ BelowSilence(gateHist'.rms, gateHist'.noiseFloor))
                   => gate'.speechTimeAccumulatorMs = 0
            /\ (gate.state = "SILENCE"
                    /\ InBand(gateHist'.rms, gateHist'.noiseFloor))
                   => gate'.speechTimeAccumulatorMs = gate.speechTimeAccumulatorMs
            /\ (gate.state = "SPEECH"
                    /\ AboveSpeech(gateHist'.rms, gateHist'.noiseFloor))
                   => gate'.silenceTimeAccumulatorMs = 0
            /\ (gate.state = "SPEECH"
                    /\ InBand(gateHist'.rms, gateHist'.noiseFloor))
                   => gate'.silenceTimeAccumulatorMs = gate.silenceTimeAccumulatorMs
            /\ gateHist'.event = "start"
                   => /\ AboveSpeech(gateHist'.rms, gateHist'.noiseFloor)
                      /\ gateHist.aboveMs + TickDelta >= speechStartHoldMs
        /\ gate'.state # gate.state =>
            /\ gate'.speechTimeAccumulatorMs = 0
            /\ gate'.silenceTimeAccumulatorMs = 0 ]_vars

\* C22 witness: speech has started on a tick before which a band tick had
\* held the speech time accumulated so far
C22_Witness ==
    /\ gateHist.op = "update"
    /\ gateHist.event = "start"
    /\ gateHist.above.active
    /\ ~gateHist.above.fresh
    /\ gateHist.above.ms < speechStartHoldMs

\* SpecGateHolds: the gate constructed with the default holds or with holds
\* longer than the cap on the tick delta
LongStartHoldMs == 1500
LongEndHoldMs == 1200
GateHolds ==
    {[start |-> speechStartHoldMs, end |-> speechEndHoldMs],
     [start |-> LongStartHoldMs, end |-> LongEndHoldMs]}

InitGateHolds ==
    /\ \E h \in GateHolds :
          gate = [GateInit EXCEPT !.speechStartHoldMs = h.start,
                                  !.speechEndHoldMs = h.end]
    /\ e2e = E2EInit
    /\ InitOthers /\ stt = SttInit /\ conv = ConvInit

SpecGateHolds == InitGateHolds /\ [][NextGate]_vars

\* C23: a counted tick adds to the accumulator it feeds the time since the
\* previous counted tick, at most 1000 ms, and nothing when it is the first
\* tick after construction or reset(); reset() leaves the gate in Silence
\* with both accumulators 0; and the first tick after construction or
\* reset() makes no transition.
C23_TickDelta ==
    [][ /\ (gateHist'.op = "update" /\ gateHist'.event = "none") =>
            /\ (gate.state = "SILENCE"
                    /\ AboveSpeech(gateHist'.rms, gateHist'.noiseFloor))
                   => gate'.speechTimeAccumulatorMs
                          = gate.speechTimeAccumulatorMs + TickDelta
            /\ (gate.state = "SPEECH"
                    /\ BelowSilence(gateHist'.rms, gateHist'.noiseFloor))
                   => gate'.silenceTimeAccumulatorMs
                          = gate.silenceTimeAccumulatorMs + TickDelta
        /\ gateHist'.event = "start" =>
               gate.speechTimeAccumulatorMs + TickDelta >= gate.speechStartHoldMs
        /\ gateHist'.event = "end" =>
               gate.silenceTimeAccumulatorMs + TickDelta >= gate.speechEndHoldMs
        /\ gateHist'.op = "reset" =>
            /\ gate'.state = "SILENCE" /\ ~gate'.isSpeaking
            /\ gate'.speechTimeAccumulatorMs = 0
            /\ gate'.silenceTimeAccumulatorMs = 0
        /\ (gateHist'.op = "update" /\ gateHist.prevTick = <<>>) =>
            /\ gateHist'.event = "none"
            /\ gate'.state = "SILENCE"
            /\ gate'.speechTimeAccumulatorMs = 0
            /\ gate'.silenceTimeAccumulatorMs = 0 ]_vars

\* C23 witness: reset() was called while the gate was in Speech, and the
\* first tick after it, with rms >= speechThreshold and well over the start
\* hold after the tick before the reset, was made
C23_Witness ==
    /\ gateHist.op = "update"
    /\ gateHist.first
    /\ gate.speechStartHoldMs = speechStartHoldMs
    /\ gateHist.lastEvent = "start"
    /\ gate.state = "SILENCE"
    /\ AboveSpeech(gateHist.rms, gateHist.noiseFloor)
    /\ now >= BootUptime + 2 * speechStartHoldMs

\* C28: over update() and reset() calls the speech-start and speech-end
\* events alternate, beginning with speech-start; isSpeaking is true exactly
\* in state Speech; and update() with noiseFloor <= 0 changes nothing.
C28_EventsAlternate ==
    [][ /\ (gateHist'.op = "update" /\ gateHist'.event = "start") =>
                gateHist.lastEvent # "start"
        /\ (gateHist'.op = "update" /\ gateHist'.event = "end") =>
                gateHist.lastEvent = "start"
        /\ gate'.isSpeaking <=> (gate'.state = "SPEECH")
        /\ gateHist'.op = "ignored" => gate' = gate ]_vars

(***************************************************************************)
(* SpecRing: producer (capture callback / feeder), consumer (processor     *)
(* loop) and the service lifecycle, every call atomic under audioMutex_.   *)
(***************************************************************************)
InitRing == InitAll

AudioCaptureService_Start ==
    \E ok \in BOOLEAN :
        /\ ring' = RingStart(ring, ok)
        /\ ringHist' = [RingHistInit EXCEPT !.op = "start"]
        /\ UNCHANGED <<conv, rmsHist, now, gateVars, calVars, segVars, orchVars, procVars, sttVars, e2e>>

AudioCaptureService_Stop ==
    /\ ring' = RingStop(ring)
    /\ ringHist' = IF ring.initialized THEN [RingHistInit EXCEPT !.op = "stop"]
                   ELSE [ringHist EXCEPT !.op = "stop", !.n = 0, !.ret = FALSE,
                                         !.out = <<>>]
    /\ UNCHANGED <<conv, rmsHist, now, gateVars, calVars, segVars, orchVars, procVars, sttVars, e2e>>

AudioCaptureService_EnqueueAudioSamples ==
    \E count \in 0..(RingCapacity + 1) :
        /\ Len(ringHist.written) + count <= MaxWritten
        /\ LET samples == Frame(Len(ringHist.written), count)
               stored  == ring.ringCapacity > 0
           IN  /\ ring' = EnqueueAudioSamples(ring, samples)
               /\ ringHist' =
                    [op |-> "enqueue", n |-> count, ret |-> FALSE, out |-> <<>>,
                     written |-> IF stored THEN ringHist.written \o samples
                                 ELSE ringHist.written,
                     unread |-> IF stored
                                THEN LastN(ringHist.unread \o samples,
                                           ring.ringCapacity)
                                ELSE ringHist.unread,
                     overflowed |->
                        \/ ringHist.overflowed
                        \/ (stored /\ Len(ringHist.unread) + count
                                        > ring.ringCapacity)]
        /\ UNCHANGED <<conv, rmsHist, now, gateVars, calVars, segVars, orchVars, procVars, sttVars, e2e>>

AudioCaptureService_DequeueAudio ==
    \E maxSamples \in 0..(RingCapacity + 1) :
        /\ LET res == DequeueAudio(ring, maxSamples)
           IN  /\ ring' = res.ring
               /\ ringHist' =
                    [ringHist EXCEPT
                        !.op = "dequeue", !.n = maxSamples, !.ret = res.ret,
                        !.out = res.out,
                        !.unread = IF res.ret THEN DropN(@, maxSamples) ELSE @,
                        !.overflowed = IF res.ret THEN FALSE ELSE @]
        /\ UNCHANGED <<conv, rmsHist, now, gateVars, calVars, segVars, orchVars, procVars, sttVars, e2e>>

NextRing ==
    \/ AudioCaptureService_Start
    \/ AudioCaptureService_Stop
    \/ AudioCaptureService_EnqueueAudioSamples
    \/ AudioCaptureService_DequeueAudio

SpecRing == InitRing /\ [][NextRing]_vars

(***************************************************************************)
(* Claims about the ring buffer (checked under SpecRing)                   *)
(***************************************************************************)
\* C4: when the writes since Start() have overflowed the buffer and no read
\* has succeeded since the last overflow, DequeueAudio of ringCapacity
\* samples succeeds and returns exactly the ringCapacity most recently
\* written samples, in write order.
C4_ReadAfterOverflowIsNewest ==
    [][ ( /\ ringHist.overflowed
          /\ ringHist'.op = "dequeue"
          /\ ringHist'.n = ring.ringCapacity )
        => /\ ringHist'.ret
           /\ ringHist'.out = LastN(ringHist.written, ring.ringCapacity)
           /\ Len(ringHist'.out) = ring.ringCapacity ]_vars

\* C4 witness: a full read has been made right after an overflow that itself
\* followed an earlier read; it returned the newest samples, the first sample
\* written being lost.
C4_Witness ==
    /\ ringHist.op = "dequeue" /\ ringHist.ret
    /\ ringHist.n = RingCapacity
    /\ Len(ringHist.written) > RingCapacity + 1
    /\ ringHist.out = LastN(ringHist.written, RingCapacity)
    /\ ringHist.out[1] > 1
    /\ ring.readIndex # 0

\* C5: DequeueAudio(out, n), n > 0, with fewer than n samples available
\* returns false and leaves the ring untouched (also for n > ringCapacity and
\* for a ring of capacity 0); otherwise it returns true, yields the n oldest
\* unread samples in order and lowers available by exactly n.
C5_ReadIsAllOrNothing ==
    [][ (ringHist'.op = "dequeue" /\ ringHist'.n > 0)
        => IF ring.available < ringHist'.n
           THEN ~ringHist'.ret /\ ring' = ring /\ ringHist'.out = <<>>
           ELSE /\ ringHist'.ret
                /\ ringHist'.out = SubSeq(ringHist.unread, 1, ringHist'.n)
                /\ ring'.available = ring.available - ringHist'.n
                /\ ring'.writeIndex = ring.writeIndex
                /\ ring'.ringBuffer = ring.ringBuffer ]_vars

\* C5 witness: a read of more than is available was refused while samples
\* were stored, after an earlier read had moved the read index.
C5_Witness ==
    /\ ringHist.op = "dequeue" /\ ~ringHist.ret
    /\ ringHist.n > ring.available
    /\ ringHist.n <= ring.ringCapacity
    /\ ring.available > 0
    /\ ring.readIndex # 0

(***************************************************************************)
(* SpecCal: a NoiseCalibrator driven by arbitrary callers                  *)
(***************************************************************************)
CalDeltas == {0, 100, 300}
CalRmsValues == {0, 40, 1000}

InitCal == InitAll

NoiseCalibrator_startCalibration ==
    \E dt \in CalDeltas :
        /\ now + dt <= BootUptime + MaxTime
        /\ now' = now + dt
        /\ cal' = startCalibration(cal, now + dt)
        /\ calHist' = [op |-> "startCalibration", rms |-> 0, ret |-> FALSE,
                       wasCalibrated |-> cal.calibrated, collected |-> <<>>]
        /\ UNCHANGED <<conv, rmsHist, gateVars, ringVars, segVars, orchVars, procVars, sttVars, e2e>>

NoiseCalibrator_addRMSValue ==
    \E dt \in CalDeltas, rms \in CalRmsValues :
        /\ now + dt <= BootUptime + MaxTime
        /\ now' = now + dt
        /\ LET res == addRMSValue(cal, rms, now + dt)
           IN  /\ Len(res.cal.rmsSamples) <= MaxObservations
               /\ cal' = res.cal
               /\ calHist' = [op |-> "addRMSValue", rms |-> rms, ret |-> res.ret,
                              wasCalibrated |-> cal.calibrated,
                              collected |-> IF res.ret THEN calHist.collected
                                            ELSE Append(calHist.collected, rms)]
        /\ UNCHANGED <<conv, rmsHist, gateVars, ringVars, segVars, orchVars, procVars, sttVars, e2e>>

NoiseCalibrator_reset ==
    \E dt \in CalDeltas :
        /\ now + dt <= BootUptime + MaxTime
        /\ now' = now + dt
        /\ cal' = CalReset(cal)
        /\ calHist' = [op |-> "reset", rms |-> 0, ret |-> FALSE,
                       wasCalibrated |-> cal.calibrated, collected |-> <<>>]
        /\ UNCHANGED <<conv, rmsHist, gateVars, ringVars, segVars, orchVars, procVars, sttVars, e2e>>

NextCal ==
    \/ NoiseCalibrator_startCalibration
    \/ NoiseCalibrator_addRMSValue
    \/ NoiseCalibrator_reset

SpecCal == InitCal /\ [][NextCal]_vars

(***************************************************************************)
(* Claims about NoiseCalibrator (checked under SpecCal)                    *)
(***************************************************************************)
\* C10: once the calibrator is calibrated, every addRMSValue call, with any
\* value at any time, returns true and changes nothing (isCalibrated() stays
\* true, getNoiseFloor() keeps its value, nothing is collected); calibrated
\* or the floor change only in a step that is reset() or startCalibration().
C10_LockIsPermanent ==
    [][ cal.calibrated
        => /\ (calHist'.op = "addRMSValue" => cal' = cal /\ calHist'.ret)
           /\ (cal'.calibrated # cal.calibrated \/ cal'.noiseFloor # cal.noiseFloor
                 => calHist'.op \in {"reset", "startCalibration"}) ]_vars

\* C10 witness: a calibrator locked on collected observations was fed, a
\* full window later, a value different from its floor.
C10_Witness ==
    /\ calHist.op = "addRMSValue" /\ calHist.wasCalibrated
    /\ cal.calibrated
    /\ cal.rmsSamples # <<>>
    /\ calHist.rms # cal.noiseFloor
    /\ now - cal.calibrationStartTime >= 2 * calibrationDurationMs

\* the arithmetic mean, rounded down to the model's unit
MeanOf(seq) == SumSeq(seq) \div Len(seq)

\* C11: a calibrated floor is the mean of exactly the values collected
\* before the window elapsed (the value of the locking call is not among
\* them), raised to the epsilon 1e-6 when that mean is smaller; with nothing
\* collected it is the epsilon; it is never 0.
C11_FloorIsClampedMeanOfCollected ==
    cal.calibrated =>
        /\ cal.noiseFloor > 0
        /\ cal.noiseFloor = IF calHist.collected = <<>> THEN NoiseFloorEpsilon
                            ELSE Max(MeanOf(calHist.collected), NoiseFloorEpsilon)

\* C11 as stated: a calibrated floor equals the mean of the collected values
\* whenever there are any, and the epsilon when there are none.
C11_FloorIsMeanOfCollected ==
    cal.calibrated =>
        cal.noiseFloor = IF calHist.collected = <<>> THEN NoiseFloorEpsilon
                         ELSE MeanOf(calHist.collected)

\* C11 witness: the calibrator locked on two collected values in a call
\* whose own value differs from their mean.
C11_Witness ==
    /\ calHist.op = "addRMSValue" /\ ~calHist.wasCalibrated /\ cal.calibrated
    /\ Len(calHist.collected) = 2
    /\ calHist.collected[1] # calHist.collected[2]
    /\ calHist.rms # cal.noiseFloor
    /\ cal.noiseFloor = MeanOf(calHist.collected)

\* C30: reset() leaves the calibrator uncalibrated with floor 0, and the
\* addRMSValue call that follows a reset() never locks the floor: the floor
\* locked next is made of observations fed after the reset.
C30_ResetStartsNewWindow ==
    [][ /\ calHist'.op = "reset" =>
              /\ ~cal'.calibrated
              /\ cal'.noiseFloor = 0
        /\ (calHist.op = "reset" /\ calHist'.op = "addRMSValue") =>
              /\ ~calHist'.ret
              /\ ~cal'.calibrated ]_vars

(***************************************************************************)
(* SpecSeg: an AudioSegmentBuffer driven by arbitrary callers              *)
(***************************************************************************)
InitSeg == InitAll

AudioSegmentBuffer_addSamples ==
    \E numSamples \in {0, 3, 5}, isSpeaking \in BOOLEAN :
        /\ segHist.fed + numSamples <= MaxFed
        /\ LET samples == Frame(segHist.fed, numSamples)
           IN  /\ seg' = addSamples(seg, samples, isSpeaking)
               /\ segHist' =
                    [segHist EXCEPT
                        !.op = "addSamples", !.fed = @ + numSamples,
                        !.frame = samples, !.isSpeaking = isSpeaking,
                        !.result = <<>>,
                        !.onset = IF ~isSpeaking THEN <<>>
                                  ELSE IF ~seg.wasSpeaking
                                       THEN seg.prePaddingBuffer \o samples
                                       ELSE @,
                        !.spoke = @ \/ (isSpeaking /\ numSamples > 0),
                        !.after = IF isSpeaking /\ numSamples > 0 THEN <<>>
                                  ELSE IF segHist.spoke THEN @ \o samples
                                  ELSE <<>>]
        /\ UNCHANGED <<conv, rmsHist, now, gateVars, ringVars, calVars, orchVars, procVars, sttVars, e2e>>

AudioSegmentBuffer_finalizeSegment ==
    /\ seg' = finalizeSegment(seg)
    /\ segHist' = [segHist EXCEPT !.op = "finalizeSegment", !.frame = <<>>,
                                  !.result = <<>>]
    /\ UNCHANGED <<conv, rmsHist, now, gateVars, ringVars, calVars, orchVars, procVars, sttVars, e2e>>

AudioSegmentBuffer_consumeSegment ==
    /\ LET res == consumeSegment(seg)
       IN  /\ seg' = res.seg
           /\ segHist' = [segHist EXCEPT
                              !.op = "consumeSegment", !.frame = <<>>,
                              !.result = res.result,
                              !.spoke = IF res.result # <<>> THEN FALSE ELSE @,
                              !.after = IF res.result # <<>> THEN <<>> ELSE @]
    /\ UNCHANGED <<conv, rmsHist, now, gateVars, ringVars, calVars, orchVars, procVars, sttVars, e2e>>

AudioSegmentBuffer_clear ==
    /\ seg' = SegClear(seg)
    /\ segHist' = [segHist EXCEPT !.op = "clear", !.frame = <<>>,
                                  !.result = <<>>, !.onset = <<>>,
                                  !.spoke = FALSE, !.after = <<>>]
    /\ UNCHANGED <<conv, rmsHist, now, gateVars, ringVars, calVars, orchVars, procVars, sttVars, e2e>>

NextSeg ==
    \/ AudioSegmentBuffer_addSamples
    \/ AudioSegmentBuffer_finalizeSegment
    \/ AudioSegmentBuffer_consumeSegment
    \/ AudioSegmentBuffer_clear

SpecSeg == InitSeg /\ [][NextSeg]_vars

(***************************************************************************)
(* Claims about AudioSegmentBuffer (checked under SpecSeg)                 *)
(***************************************************************************)
IsPrefix(p, q) == Len(p) <= Len(q) /\ SubSeq(q, 1, Len(p)) = p

\* C9: on the first speaking frame after silence the active segment becomes
\* the pre-speech buffer, in order, followed by that frame, and the
\* pre-speech buffer is emptied; a segment consumed after that begins with
\* the pre-speech content followed by the first speaking frame.
C9_OnsetIsNotClipped ==
    [][ /\ ( /\ segHist'.op = "addSamples" /\ segHist'.isSpeaking
             /\ ~seg.wasSpeaking )
           => /\ seg'.buffer = seg.prePaddingBuffer \o segHist'.frame
              /\ seg'.prePaddingBuffer = <<>>
        /\ (segHist'.op = "consumeSegment" /\ segHist'.result # <<>>)
           => IsPrefix(segHist.onset, segHist'.result)
      ]_vars

\* C9 witness: a segment finalized right after its first speaking frame was
\* consumed; it starts with a full pre-speech buffer that had been sliding.
C9_Witness ==
    /\ segHist.op = "consumeSegment"
    /\ Len(segHist.result) > samplesForDuration(prePaddingMs)
    /\ segHist.result = segHist.onset
    /\ segHist.result[1] > 1

\* the samples the claim expects at the end of a finalized segment: the
\* most recent ones given after the last speaking frame, postPaddingMs worth
\* at most
PostPadding == LastN(segHist.after, samplesForDuration(postPaddingMs))

\* C25: when finalizeSegment() is called on an utterance (speaking frames
\* were given since the last segment was consumed or cleared) after which
\* further samples arrived, a segment is ready and it ends with the most
\* recent of those samples, at most postPaddingMs worth, in the order given.
C25_SegmentEndsWithPostPadding ==
    (segHist.op = "finalizeSegment" /\ segHist.spoke /\ segHist.after # <<>>) =>
        /\ seg.segmentReady
        /\ LastN(seg.buffer, Len(PostPadding)) = PostPadding

\* C29: whenever hasSegment() is true the active buffer is non-empty and
\* consumeSegment() would return a non-empty segment; consumeSegment()
\* without a ready segment returns empty and changes nothing; after a
\* consumeSegment() that returned a segment, hasSegment() is false and
\* size() is 0.
C29_ReadyFlagTruthful ==
    [][ /\ seg'.segmentReady =>
              /\ seg'.buffer # <<>>
              /\ consumeSegment(seg').result # <<>>
        /\ (segHist'.op = "consumeSegment" /\ ~seg.segmentReady) =>
              /\ segHist'.result = <<>>
              /\ seg' = seg
        /\ (segHist'.op = "consumeSegment" /\ segHist'.result # <<>>) =>
              /\ ~seg'.segmentReady
              /\ Len(seg'.buffer) = 0 ]_vars

(***************************************************************************)
(* SpecOrch: an AudioCaptureOrchestrator driven by arbitrary start, stop   *)
(* and processSamples calls, each frame 20 ms of audio, arriving 20 ms or  *)
(* 300 ms after the previous call.                                         *)
(***************************************************************************)
MaxOrchFrames == 6
MaxOrchStarts == 2
LoudAmplitude == 3000
OrchDeltas == {20, 300}
OrchFrames == {<<>>, <<0, 0>>, <<LoudAmplitude, -LoudAmplitude>>}

InitOrch == InitAll

\* the orchestrator's components after a call, and the callback's record
OrchAssign(st, delivered, opName, isFrame, isStart) ==
    /\ orch' = st.orch
    /\ rmsAn' = st.rmsAn
    /\ cal' = st.cal
    /\ gate' = st.gate
    /\ seg' = st.seg
    /\ orchHist' = [op |-> opName,
                    delivered |-> IF delivered # <<>>
                                  THEN Append(orchHist.delivered, Len(delivered))
                                  ELSE orchHist.delivered,
                    lastSegment |-> IF delivered # <<>> THEN delivered
                                    ELSE orchHist.lastSegment,
                    frames |-> orchHist.frames + (IF isFrame THEN 1 ELSE 0),
                    starts |-> orchHist.starts + (IF isStart THEN 1 ELSE 0),
                    sinceStart |-> IF isStart THEN 0
                                   ELSE orchHist.sinceStart
                                        + (IF delivered # <<>> THEN 1 ELSE 0)]

AudioCaptureOrchestrator_start ==
    \E dt \in OrchDeltas :
        /\ orchHist.starts < MaxOrchStarts
        /\ now + dt <= BootUptime + MaxTime
        /\ now' = now + dt
        /\ OrchAssign(OrchStart(OrchState, now + dt), <<>>, "start", FALSE, TRUE)
        /\ UNCHANGED <<conv, rmsHist, gateHist, calHist, segHist, ringVars, procVars, sttVars, e2e>>

AudioCaptureOrchestrator_stop ==
    /\ LET res == OrchStop(OrchState)
       IN  OrchAssign(res.st, res.delivered, "stop", FALSE, FALSE)
    /\ UNCHANGED <<conv, rmsHist, now, gateHist, calHist, segHist, ringVars, procVars, sttVars, e2e>>

AudioCaptureOrchestrator_processSamples ==
    \E dt \in OrchDeltas, samples \in OrchFrames :
        /\ orchHist.frames < MaxOrchFrames
        /\ now + dt <= BootUptime + MaxTime
        /\ now' = now + dt
        /\ LET res == processSamples(OrchState, samples, now + dt)
           IN  OrchAssign(res.st, res.delivered, "processSamples", TRUE, FALSE)
        /\ UNCHANGED <<conv, rmsHist, gateHist, calHist, segHist, ringVars, procVars, sttVars, e2e>>

NextOrch ==
    \/ AudioCaptureOrchestrator_start
    \/ AudioCaptureOrchestrator_stop
    \/ AudioCaptureOrchestrator_processSamples

SpecOrch == InitOrch /\ [][NextOrch]_vars

minDurationMs == kMinChunkMs
maxDurationMs == kMaxChunkSeconds * 1000

\* C8: every segment handed to the segment-ready callback, and every chunk
\* handed to the transcription service, lasts at least minDurationMs and at
\* most maxDurationMs.
C8_HandedOnSegmentsAreWithinBounds ==
    /\ \A i \in 1..Len(orchHist.delivered) :
           /\ DurationMs(orchHist.delivered[i]) >= minDurationMs
           /\ DurationMs(orchHist.delivered[i]) <= maxDurationMs
    /\ \A i \in 1..Len(procHist.jobs) :
           /\ DurationMs(procHist.jobs[i]) >= minDurationMs
           /\ DurationMs(procHist.jobs[i]) <= maxDurationMs

(***************************************************************************)
(* SpecSTT: the STT service under arbitrary Start/Stop calls of the host   *)
(* thread and Transcribe calls of the audio-processor thread, with the     *)
(* worker thread running in between.                                       *)
(***************************************************************************)
MaxSttCalls == 2
MaxBlockingCalls == 1
SttCounts == {0, 3}
EngineOutcomes == {"ok", "no_model", "no_backend"}

\* the model file and the compute backends are what they are when the
\* program starts, and stay so
InitSTT ==
    /\ InitRest
    /\ conv = ConvInit
    /\ \E engine \in EngineOutcomes : stt = [SttInit EXCEPT !.engine = engine]

SttOthersUnchanged ==
    UNCHANGED <<conv, rmsHist, now, gateVars, ringVars, calVars, segVars, orchVars, procVars, e2e>>

\* the history record when Start() returns, which it does with "return
\* true" (line 153): a session begins unless one is under way, and remembers
\* the lines and recognition calls counted so far
SttHistStart(h, s) ==
    IF h.inSession
    THEN [h EXCEPT !.op = "Start", !.stopReturned = FALSE,
                   !.startReturned = "true"]
    ELSE [h EXCEPT !.op = "Start", !.stopReturned = FALSE, !.inSession = TRUE,
                   !.startReturned = "true",
                   !.linesAtStart = s.errorLines,
                   !.recognitionsAtStart = s.recognitions]

STT_Start ==
    /\ stt.hostPc = "idle"
    /\ stt' = SttStart_running(stt)
    /\ sttHist' = [sttHist EXCEPT !.op = "Start", !.stopReturned = FALSE]
    /\ SttOthersUnchanged

STT_Start_workerFailed ==
    /\ stt.hostPc = "start_failed"
    /\ stt' = SttStart_workerFailed(stt)
    /\ UNCHANGED sttHist
    /\ SttOthersUnchanged

STT_Start_available ==
    /\ stt.hostPc = "start_available"
    /\ stt' = SttStart_available(stt)
    /\ sttHist' = SttHistStart(sttHist, stt)
    /\ SttOthersUnchanged

STT_Stop ==
    /\ stt.hostPc = "idle"
    /\ stt' = SttStop_running(stt)
    /\ sttHist' = [sttHist EXCEPT !.op = "Stop",
                                  !.stopAlone = /\ stt.procPc = "idle"
                                                /\ stt.blockPc = "idle"]
    /\ SttOthersUnchanged

STT_Stop_notify ==
    /\ stt.hostPc = "stop_notify"
    /\ stt' = SttStop_notify(stt)
    /\ UNCHANGED sttHist
    /\ SttOthersUnchanged

STT_Stop_lock ==
    /\ stt.hostPc = "stop_lock"
    /\ stt.workerMutex = "none"
    /\ stt' = SttStop_lock(stt)
    /\ UNCHANGED sttHist
    /\ SttOthersUnchanged

STT_Stop_join ==
    /\ stt.hostPc = "stop_join"
    /\ stt.workerPc = "exited"
    /\ stt' = SttStop_join(stt)
    /\ UNCHANGED sttHist
    /\ SttOthersUnchanged

STT_Stop_clear ==
    /\ stt.hostPc = "stop_clear"
    /\ stt.queueMutex = "none"
    /\ stt' = SttStop_clear(stt)
    /\ UNCHANGED sttHist
    /\ SttOthersUnchanged

STT_Stop_free ==
    /\ stt.hostPc = "stop_free"
    /\ stt.ctxMutex = "none"
    /\ stt' = SttStop_free(stt)
    /\ sttHist' = [sttHist EXCEPT !.stopReturned = TRUE, !.inSession = FALSE,
                                  !.left = IF sttHist.stopReturned THEN @
                                           ELSE SttMembers(stt')]
    /\ SttOthersUnchanged

\* the string Transcribe(const int16_t*, int) returns: "" at line 203 and
\* at line 207
TranscribeReturnValue == ""

\* the history record after a step of the processor thread: when the step
\* ends the call (the thread is idle again), the call's return is recorded
SttHistReturn(h, after) ==
    IF after.procPc = "idle"
    THEN [h EXCEPT !.returned = [count |-> h.call.count,
                                 inSession |-> h.call.inSession,
                                 value |-> TranscribeReturnValue],
                   !.call = [count |-> 0, inSession |-> FALSE]]
    ELSE h

STT_Transcribe ==
    \E count \in SttCounts :
        /\ stt.procPc = "idle"
        /\ sttHist.calls < MaxSttCalls
        /\ stt' = SttTranscribe(stt, count)
        /\ sttHist' = SttHistReturn(
               [sttHist EXCEPT !.op = "Transcribe", !.calls = @ + 1,
                               !.stopAlone = FALSE,
                               !.call = [count |-> count,
                                         inSession |-> sttHist.inSession]],
               stt')
        /\ SttOthersUnchanged

STT_EnqueuePcm_available ==
    /\ stt.procPc = "enqueue"
    /\ stt' = SttEnqueue_available(stt)
    /\ sttHist' = SttHistReturn(sttHist, stt')
    /\ SttOthersUnchanged

STT_EnsureWorkerStarted_check ==
    /\ stt.procPc = "ensure"
    /\ stt' = SttEnsure_check(stt)
    /\ sttHist' = SttHistReturn(sttHist, stt')
    /\ SttOthersUnchanged

STT_EnsureWorkerStarted_locked ==
    \E spawned \in BOOLEAN :
        /\ stt.procPc = "ensure_locked"
        /\ stt.workerMutex = "none"
        /\ stt' = SttEnsure_locked(stt, spawned)
        /\ sttHist' = SttHistReturn(sttHist, stt')
        /\ SttOthersUnchanged

STT_EnqueuePcm_push ==
    /\ stt.procPc = "push"
    /\ stt.queueMutex = "none"
    /\ stt' = SttEnqueue_push(stt)
    /\ sttHist' = [sttHist EXCEPT !.enqueued = Append(@, stt.procJob)]
    /\ SttOthersUnchanged

STT_EnqueuePcm_notify ==
    /\ stt.procPc = "notify"
    /\ stt' = SttEnqueue_notify(stt)
    /\ sttHist' = SttHistReturn(sttHist, stt')
    /\ SttOthersUnchanged

STT_WorkerLoop_top ==
    /\ stt.workerPc = "top"
    /\ stt' = SttWorker_top(stt)
    /\ UNCHANGED sttHist
    /\ SttOthersUnchanged

STT_WorkerLoop_wait ==
    /\ stt.workerPc = "wait"
    /\ stt.queueMutex = "none"
    /\ stt' = SttWorker_wait(stt)
    /\ UNCHANGED sttHist
    /\ SttOthersUnchanged

STT_WorkerLoop_block ==
    /\ stt.workerPc = "block"
    /\ stt' = SttWorker_block(stt)
    /\ UNCHANGED sttHist
    /\ SttOthersUnchanged

\* condition_variable::wait may return without a notification
STT_WorkerLoop_spuriousWakeup ==
    /\ stt.workerPc = "waiting"
    /\ stt' = [stt EXCEPT !.workerPc = "wait"]
    /\ UNCHANGED sttHist
    /\ SttOthersUnchanged

STT_WorkerLoop_afterWait ==
    \E undefinedJob \in {0, 1} :
        /\ stt.workerPc = "after_wait"
        /\ stt' = SttWorker_afterWait(stt, undefinedJob)
        /\ UNCHANGED sttHist
        /\ SttOthersUnchanged

STT_WorkerLoop_process ==
    /\ stt.workerPc = "process"
    /\ stt.ctxMutex = "none"
    /\ stt' = SttWorker_process(stt, stt.engine)
    /\ UNCHANGED sttHist
    /\ SttOthersUnchanged

STT_WorkerLoop_recognized ==
    /\ stt.workerPc = "recognizing"
    /\ stt' = SttWorker_recognized(stt)
    /\ UNCHANGED sttHist
    /\ SttOthersUnchanged

STT_TranscribeBlocking ==
    \E count \in SttCounts :
        /\ stt.blockPc = "idle"
        /\ sttHist.blockingCalls < MaxBlockingCalls
        /\ stt' = SttBlocking_call(stt, count)
        /\ sttHist' = [sttHist EXCEPT !.op = "TranscribeBlocking",
                                      !.stopAlone = FALSE,
                                      !.blockingCalls = @ + 1]
        /\ SttOthersUnchanged

STT_TranscribeBlocking_locked ==
    /\ stt.blockPc = "lock"
    /\ stt.ctxMutex = "none"
    /\ stt' = SttBlocking_locked(stt, stt.engine)
    /\ UNCHANGED sttHist
    /\ SttOthersUnchanged

STT_TranscribeBlocking_recognized ==
    \E threw \in BOOLEAN :
        /\ stt.blockPc = "recognizing"
        /\ stt' = SttBlocking_recognized(stt, threw)
        /\ UNCHANGED sttHist
        /\ SttOthersUnchanged

NextSTT ==
    \/ STT_Start
    \/ STT_Start_workerFailed
    \/ STT_Start_available
    \/ STT_Stop
    \/ STT_Stop_notify
    \/ STT_Stop_lock
    \/ STT_Stop_join
    \/ STT_Stop_clear
    \/ STT_Stop_free
    \/ STT_Transcribe
    \/ STT_EnqueuePcm_available
    \/ STT_EnsureWorkerStarted_check
    \/ STT_EnsureWorkerStarted_locked
    \/ STT_EnqueuePcm_push
    \/ STT_EnqueuePcm_notify
    \/ STT_WorkerLoop_top
    \/ STT_WorkerLoop_wait
    \/ STT_WorkerLoop_block
    \/ STT_WorkerLoop_spuriousWakeup
    \/ STT_WorkerLoop_afterWait
    \/ STT_WorkerLoop_process
    \/ STT_WorkerLoop_recognized
    \/ STT_TranscribeBlocking
    \/ STT_TranscribeBlocking_locked
    \/ STT_TranscribeBlocking_recognized

SpecSTT == InitSTT /\ [][NextSTT]_vars

\* a call in progress on the host thread takes its next step
HostProgress ==
    \/ STT_Start_workerFailed
    \/ STT_Start_available
    \/ STT_Stop_notify
    \/ STT_Stop_lock
    \/ STT_Stop_join
    \/ STT_Stop_clear
    \/ STT_Stop_free

\* a Transcribe call in progress on the processor thread takes its next step
ProcessorProgress ==
    \/ STT_EnqueuePcm_available
    \/ STT_EnsureWorkerStarted_check
    \/ STT_EnsureWorkerStarted_locked
    \/ STT_EnqueuePcm_push
    \/ STT_EnqueuePcm_notify

\* the worker thread, when runnable, takes its next step
WorkerProgress ==
    \/ STT_WorkerLoop_top
    \/ STT_WorkerLoop_wait
    \/ STT_WorkerLoop_block
    \/ STT_WorkerLoop_afterWait
    \/ STT_WorkerLoop_process
    \/ STT_WorkerLoop_recognized

\* a TranscribeBlocking call in progress takes its next step
BlockingProgress ==
    \/ STT_TranscribeBlocking_locked
    \/ STT_TranscribeBlocking_recognized

\* SpecSTT with a scheduler that runs every thread that is runnable again
\* and again.  A spurious wake-up may happen but is never owed.
SpecSTTFair ==
    /\ SpecSTT
    /\ SF_vars(HostProgress)
    /\ SF_vars(ProcessorProgress)
    /\ SF_vars(WorkerProgress)
    /\ SF_vars(BlockingProgress)

StopInProgress ==
    stt.hostPc \in {"stop_notify", "stop_lock", "stop_join", "stop_clear", "stop_free"}

\* C6: every call of STTService::Stop() returns.
C6_StopAlwaysReturns == StopInProgress ~> (stt.hostPc = "idle")

\* C7: from the return of Stop() until the next Start(), the worker thread
\* does not exist, the job queue is empty and the engine handle is released,
\* whatever the processor thread's Transcribe() calls do (runs in which
\* TranscribeBlocking() was called are left aside).
C7_StoppedServiceStaysClean ==
    sttHist.stopReturned /\ sttHist.blockingCalls = 0 =>
        /\ stt.workerPc = "none"
        /\ ~stt.joinable
        /\ stt.queue = <<>>
        /\ ~stt.ctx

(***************************************************************************)
(* SpecE2E: the end-to-end scenario.  Both pipelines are started, the      *)
(* scenario's frames are given in real time to the orchestrator and to the *)
(* capture ring, the processor thread drains the ring and hands chunks to  *)
(* the STT service, whose worker thread runs alongside; then both          *)
(* pipelines are stopped.                                                  *)
(***************************************************************************)
ToneAmplitudes == {2000, 4000}
NoiseAmplitudes == {0, 2}
FirstFrameDelays == {0, 10, 20}

InitE2E == InitAll

\* orchestrator.start(), AudioCaptureService::Start(),
\* AudioProcessorService::Start(), STTService::Start()
E2E_Start ==
    \E tone \in ToneAmplitudes, noise \in NoiseAmplitudes, delay \in FirstFrameDelays :
        /\ e2e.phase = "idle"
        /\ e2e' = [e2e EXCEPT !.phase = "feeding", !.tone = tone,
                               !.noise = noise, !.delay = delay, !.fed = 0]
        /\ OrchAssign(OrchStart(OrchState, now), <<>>, "start", FALSE, TRUE)
        /\ ring' = RingStart(ring, TRUE)
        /\ proc' = ProcStart(proc)
        /\ stt' = SttStart_available(SttStart_workerFailed(SttStart_running(stt)))
        /\ sttHist' = SttHistStart(sttHist, stt)
        /\ UNCHANGED <<conv, rmsHist, now, gateHist, calHist, segHist, ringHist, procHist>>

\* the next frame arrives: processSamples on the orchestrator and
\* EnqueueAudioSamples on the capture ring
E2E_Feed ==
    LET dt    == IF e2e.fed = 0 THEN e2e.delay ELSE kBufferMs
        frame == ScriptFrame(e2e)
    IN  /\ e2e.phase = "feeding"
        /\ e2e.fed < ScriptLen
        /\ ring.available < bufferSamples
        /\ now + dt <= BootUptime + MaxTime
        /\ now' = now + dt
        /\ e2e' = [e2e EXCEPT !.fed = @ + Len(frame)]
        /\ LET res == processSamples(OrchState, frame, now + dt)
           IN  OrchAssign(res.st, res.delivered, "processSamples", TRUE, FALSE)
        /\ ring' = EnqueueAudioSamples(ring, frame)
        /\ UNCHANGED <<conv, rmsHist, gateHist, calHist, segHist, ringHist, procVars, sttVars>>

\* one iteration of AudioProcessorService::RunWorker that dequeues a buffer
E2E_RunWorker ==
    /\ e2e.phase = "feeding"
    /\ proc.running
    /\ stt.procPc = "idle"
    /\ ring.available >= bufferSamples
    /\ LET deq == DequeueAudio(ring, bufferSamples)
           res == ProcessBuffer(proc, deq.out)
           pcm == IF res.shouldTranscribe /\ res.completedChunk # <<>>
                  THEN Dispatch(res.completedChunk) ELSE <<>>
       IN  /\ ring' = deq.ring
           /\ proc' = res.proc
           /\ procHist' = [procHist EXCEPT
                               !.op = "RunWorker",
                               !.jobs = IF pcm # <<>>
                                        THEN Append(@, Len(res.completedChunk))
                                        ELSE @,
                               !.dropped = @ + (IF res.dropped THEN 1 ELSE 0)]
           /\ stt' = IF pcm # <<>> THEN SttTranscribe(stt, Len(pcm)) ELSE stt
    /\ UNCHANGED <<conv, rmsHist, now, gateVars, calVars, segVars, orchVars, ringHist, sttHist, e2e>>

\* orchestrator.stop() and AudioProcessorService::Stop() after the last frame
E2E_Stop ==
    /\ e2e.phase = "feeding"
    /\ e2e.fed = ScriptLen
    /\ ring.available < bufferSamples
    /\ stt.procPc = "idle"
    /\ e2e' = [e2e EXCEPT !.phase = "stopped"]
    /\ LET res == OrchStop(OrchState)
       IN  OrchAssign(res.st, res.delivered, "stop", FALSE, FALSE)
    /\ proc' = ProcStop(proc)
    /\ UNCHANGED <<conv, rmsHist, now, gateHist, calHist, segHist, ringVars, procHist, sttVars>>

NextE2E ==
    \/ E2E_Start
    \/ E2E_Feed
    \/ E2E_RunWorker
    \/ E2E_Stop
    \/ STT_EnqueuePcm_available
    \/ STT_EnsureWorkerStarted_check
    \/ STT_EnsureWorkerStarted_locked
    \/ STT_EnqueuePcm_push
    \/ STT_EnqueuePcm_notify
    \/ STT_WorkerLoop_top
    \/ STT_WorkerLoop_wait
    \/ STT_WorkerLoop_block
    \/ STT_WorkerLoop_spuriousWakeup
    \/ STT_WorkerLoop_afterWait
    \/ STT_WorkerLoop_process
    \/ STT_WorkerLoop_recognized

SpecE2E == InitE2E /\ [][NextE2E]_vars

WithinBounds(n) ==
    DurationMs(n) >= minDurationMs /\ DurationMs(n) <= maxDurationMs

InRecognition == {t \in {"worker", "caller"} :
                    \/ t = "worker" /\ stt.workerPc = "recognizing"
                    \/ t = "caller" /\ stt.blockPc = "recognizing"}

\* C12: at most one thread is inside the recognition call, at most one
\* worker thread exists, and while a recognition call is in progress the
\* engine handle is loaded and held under ctxMutex_ by the calling thread.
C12_EngineIsNeverEnteredConcurrently ==
    /\ Cardinality(InRecognition) <= 1
    /\ stt.workers <= 1
    /\ \A t \in InRecognition : stt.ctx /\ stt.ctxMutex = t

\* C12 witness: the worker is inside the recognition call while a
\* TranscribeBlocking caller waits for ctxMutex_.
C12_Witness ==
    /\ stt.workerPc = "recognizing"
    /\ stt.blockPc = "lock"
    /\ stt.ctx

\* the session under way runs with a missing or unloadable model, or with no
\* compute backend
DegradedSession == sttHist.inSession /\ stt.engine # "ok"
\* 'unavailable' error lines and recognition calls since the session began
SessionErrorLines == stt.errorLines - sttHist.linesAtStart
SessionRecognitions == stt.recognitions - sttHist.recognitionsAtStart

C14_WorkerStartFailureIsReportedByStart ==
    (stt.workerFailed /\ stt.hostPc = "idle")
        => sttHist.startReturned = "false"

\* a string with at least one letter; "none" stands for no return yet
HasLetter(str) == str \notin {"none", ""}

\* C15: a Transcribe(samples, count) with count > 0, called after a
\* successful Start() while the engine recognises speech, returns a string
\* with at least one letter.
C15_TranscribeReturnsTranscript ==
    (/\ sttHist.returned.count > 0
     /\ sttHist.returned.inSession
     /\ stt.engine = "ok"
     /\ Len(sttHist.enqueued) > 0)
        => HasLetter(sttHist.returned.value)

\* C16: when a Stop() returns that follows a returned Stop() with no Start()
\* in between, and no Transcribe() or TranscribeBlocking() was in progress
\* at any time of this second call, the service is in the state the first
\* Stop() left it.
C16_SecondStopLeavesTheStateOfTheFirst ==
    [][(/\ sttHist.stopReturned /\ sttHist.stopAlone
        /\ stt.hostPc = "stop_free" /\ stt'.hostPc = "idle")
          => SttMembers(stt') = sttHist.left]_vars

(***************************************************************************)
(* SpecLocks: the service pipeline with every lock scope as two steps, the *)
(* acquisition and the section with its release.  The capture thread       *)
(* plays the end-to-end scenario into the ring; the processor thread runs  *)
(* RunWorker(); the STT worker and a caller of TranscribeBlocking() run as *)
(* in SpecSTT; the host thread stops the three services in any order.      *)
(***************************************************************************)
LocksTone == 4000
\* the host and the caller of TranscribeBlocking() start to act when this
\* many samples of the scenario have been captured
LocksLateSamples == 110

InitLocks == InitAll

\* the host starts the capture, processor and STT services
Pipeline_Start ==
    /\ e2e.phase = "idle"
    /\ e2e' = [e2e EXCEPT !.phase = "feeding", !.tone = LocksTone,
                           !.noise = 0, !.delay = 0, !.fed = 0]
    /\ ring' = RingStart(ring, TRUE)
    /\ proc' = ProcStart(proc)
    /\ stt' = SttStart_available(SttStart_workerFailed(SttStart_running(stt)))
    /\ sttHist' = SttHistStart(sttHist, stt)
    /\ UNCHANGED <<conv, rmsHist, now, gateVars, calVars, segVars, orchVars, ringHist, procHist>>

\* EnqueueAudioSamples, line 250: the capture thread takes audioMutex_
CaptureThread_EnqueueAudioSamples_lock ==
    /\ e2e.phase = "feeding"
    /\ e2e.fed < ScriptLen
    /\ ring.capturePc = "idle"
    /\ ring.audioMutex = "none"
    /\ ring.available < bufferSamples
    /\ now + kBufferMs <= BootUptime + MaxTime
    /\ now' = now + kBufferMs
    /\ ring' = [ring EXCEPT !.audioMutex = "capture", !.capturePc = "enqueue"]
    /\ UNCHANGED <<conv, rmsHist, gateVars, calVars, segVars, orchVars, ringHist, procVars,
                   sttVars, e2e>>

\* lines 251-262: the frame is written and the mutex released
CaptureThread_EnqueueAudioSamples ==
    LET frame == ScriptFrame(e2e)
    IN  /\ ring.capturePc = "enqueue"
        /\ ring' = [EnqueueAudioSamples(ring, frame) EXCEPT
                        !.audioMutex = "none", !.capturePc = "idle"]
        /\ e2e' = [e2e EXCEPT !.fed = @ + Len(frame)]
        /\ UNCHANGED <<conv, rmsHist, now, gateVars, calVars, segVars, orchVars, ringHist,
                       procVars, sttVars>>

\* RunWorker line 104-105 and DequeueAudio line 269: the loop goes on and
\* the processor thread takes audioMutex_
AudioProcessorService_RunWorker_DequeueAudio_lock ==
    /\ proc.workerPc = "loop"
    /\ stt.procPc = "idle"
    /\ proc.running
    /\ ring.audioMutex = "none"
    /\ ring' = [ring EXCEPT !.audioMutex = "processor"]
    /\ proc' = [proc EXCEPT !.workerPc = "dequeue"]
    /\ UNCHANGED <<conv, rmsHist, now, gateVars, calVars, segVars, orchVars, ringHist,
                   procHist, sttVars, e2e>>

\* DequeueAudio lines 270-278 and its return to RunWorker
AudioProcessorService_RunWorker_DequeueAudio ==
    /\ proc.workerPc = "dequeue"
    /\ LET deq == DequeueAudio(ring, bufferSamples)
       IN  /\ ring' = [deq.ring EXCEPT !.audioMutex = "none"]
           /\ proc' = IF deq.ret
                      THEN [proc EXCEPT !.workerPc = "state", !.buffer = deq.out]
                      ELSE [proc EXCEPT !.workerPc = "loop"]
    /\ UNCHANGED <<conv, rmsHist, now, gateVars, calVars, segVars, orchVars, ringHist,
                   procHist, sttVars, e2e>>

\* RunWorker line 122: the processor thread takes mutex_
AudioProcessorService_RunWorker_lock ==
    /\ proc.workerPc = "state"
    /\ proc.mutex = "none"
    /\ proc' = [proc EXCEPT !.mutex = "processor", !.workerPc = "process"]
    /\ UNCHANGED <<conv, rmsHist, now, gateVars, ringVars, calVars, segVars, orchVars,
                   procHist, sttVars, e2e>>

\* RunWorker lines 124-222: the buffer is processed, mutex_ released, and a
\* completed chunk converted and handed to Transcribe()
AudioProcessorService_RunWorker_process ==
    /\ proc.workerPc = "process"
    /\ LET res == ProcessBuffer(proc, proc.buffer)
           pcm == IF res.shouldTranscribe /\ res.completedChunk # <<>>
                  THEN Dispatch(res.completedChunk) ELSE <<>>
       IN  /\ proc' = [res.proc EXCEPT !.mutex = "none", !.workerPc = "loop",
                                       !.buffer = <<>>]
           /\ procHist' = [procHist EXCEPT
                               !.op = "RunWorker",
                               !.jobs = IF pcm # <<>>
                                        THEN Append(@, Len(res.completedChunk))
                                        ELSE @,
                               !.dropped = @ + (IF res.dropped THEN 1 ELSE 0)]
           /\ stt' = IF pcm # <<>> THEN SttTranscribe(stt, Len(pcm)) ELSE stt
    /\ UNCHANGED <<conv, rmsHist, now, gateVars, ringVars, calVars, segVars, orchVars,
                   sttHist, e2e>>

\* RunWorker line 104: running_ is false and the thread returns
AudioProcessorService_RunWorker_exit ==
    /\ proc.workerPc = "loop"
    /\ stt.procPc = "idle"
    /\ ~proc.running
    /\ proc' = [proc EXCEPT !.workerPc = "exited"]
    /\ UNCHANGED <<conv, rmsHist, now, gateVars, ringVars, calVars, segVars, orchVars,
                   procHist, sttVars, e2e>>

\* AudioProcessorService::Stop() on the host thread, line 62
AudioProcessorService_Stop ==
    /\ e2e.phase = "feeding"
    /\ e2e.fed >= LocksLateSamples
    /\ stt.hostPc = "idle"
    /\ proc.workerPc # "none"
    /\ proc' = ProcStop_running(proc)
    /\ stt' = [stt EXCEPT !.hostPc = "proc_stop_join"]
    /\ procHist' = [procHist EXCEPT !.op = "Stop"]
    /\ UNCHANGED <<conv, rmsHist, now, gateVars, ringVars, calVars, segVars, orchVars,
                   sttHist, e2e>>

AudioProcessorService_Stop_join ==
    /\ stt.hostPc = "proc_stop_join"
    /\ proc.workerPc = "exited"
    /\ proc' = ProcStop_join(proc)
    /\ stt' = [stt EXCEPT !.hostPc = "proc_stop_lock"]
    /\ UNCHANGED <<conv, rmsHist, now, gateVars, ringVars, calVars, segVars, orchVars,
                   procHist, sttHist, e2e>>

AudioProcessorService_Stop_lock ==
    /\ stt.hostPc = "proc_stop_lock"
    /\ proc.mutex = "none"
    /\ proc' = ProcStop_lock(proc)
    /\ stt' = [stt EXCEPT !.hostPc = "proc_stop_clear"]
    /\ UNCHANGED <<conv, rmsHist, now, gateVars, ringVars, calVars, segVars, orchVars,
                   procHist, sttHist, e2e>>

AudioProcessorService_Stop_clear ==
    /\ stt.hostPc = "proc_stop_clear"
    /\ proc' = ProcStop_clear(proc)
    /\ stt' = [stt EXCEPT !.hostPc = "idle"]
    /\ UNCHANGED <<conv, rmsHist, now, gateVars, ringVars, calVars, segVars, orchVars,
                   procHist, sttHist, e2e>>

\* AudioCaptureService::Stop() on the host thread, lines 203-229: the
\* capture thread is told to stop, and may still run when the wait times out
Host_AudioCaptureService_Stop ==
    /\ e2e.phase = "feeding"
    /\ e2e.fed >= LocksLateSamples
    /\ stt.hostPc = "idle"
    /\ ring.initialized
    /\ stt' = [stt EXCEPT !.hostPc = "capture_stop_lock"]
    /\ ringHist' = [ringHist EXCEPT !.op = "Stop"]
    /\ UNCHANGED <<conv, rmsHist, now, gateVars, ring, calVars, segVars, orchVars, procVars,
                   sttHist, e2e>>

\* line 231
Host_AudioCaptureService_Stop_lock ==
    /\ stt.hostPc = "capture_stop_lock"
    /\ ring.audioMutex = "none"
    /\ ring' = [ring EXCEPT !.audioMutex = "host"]
    /\ stt' = [stt EXCEPT !.hostPc = "capture_stop_clear"]
    /\ UNCHANGED <<conv, rmsHist, now, gateVars, ringHist, calVars, segVars, orchVars,
                   procVars, sttHist, e2e>>

\* lines 232-239
Host_AudioCaptureService_Stop_clear ==
    /\ stt.hostPc = "capture_stop_clear"
    /\ ring' = [RingStop(ring) EXCEPT !.audioMutex = "none"]
    /\ stt' = [stt EXCEPT !.hostPc = "idle"]
    /\ UNCHANGED <<conv, rmsHist, now, gateVars, ringHist, calVars, segVars, orchVars,
                   procVars, sttHist, e2e>>

\* STTService::Stop() and TranscribeBlocking() called in the late part
Host_STTService_Stop == e2e.fed >= LocksLateSamples /\ STT_Stop
Caller_TranscribeBlocking == e2e.fed >= LocksLateSamples /\ STT_TranscribeBlocking

NextLocks ==
    \/ Pipeline_Start
    \/ CaptureThread_EnqueueAudioSamples_lock
    \/ CaptureThread_EnqueueAudioSamples
    \/ AudioProcessorService_RunWorker_DequeueAudio_lock
    \/ AudioProcessorService_RunWorker_DequeueAudio
    \/ AudioProcessorService_RunWorker_lock
    \/ AudioProcessorService_RunWorker_process
    \/ AudioProcessorService_RunWorker_exit
    \/ AudioProcessorService_Stop
    \/ AudioProcessorService_Stop_join
    \/ AudioProcessorService_Stop_lock
    \/ AudioProcessorService_Stop_clear
    \/ Host_AudioCaptureService_Stop
    \/ Host_AudioCaptureService_Stop_lock
    \/ Host_AudioCaptureService_Stop_clear
    \/ Host_STTService_Stop
    \/ STT_Stop_notify
    \/ STT_Stop_lock
    \/ STT_Stop_join
    \/ STT_Stop_clear
    \/ STT_Stop_free
    \/ STT_EnqueuePcm_available
    \/ STT_EnsureWorkerStarted_check
    \/ STT_EnsureWorkerStarted_locked
    \/ STT_EnqueuePcm_push
    \/ STT_EnqueuePcm_notify
    \/ STT_WorkerLoop_top
    \/ STT_WorkerLoop_wait
    \/ STT_WorkerLoop_block
    \/ STT_WorkerLoop_spuriousWakeup
    \/ STT_WorkerLoop_afterWait
    \/ STT_WorkerLoop_process
    \/ STT_WorkerLoop_recognized
    \/ Caller_TranscribeBlocking
    \/ STT_TranscribeBlocking_locked
    \/ STT_TranscribeBlocking_recognized

SpecLocks == InitLocks /\ [][NextLocks]_vars

Threads == {"capture", "processor", "worker", "caller", "host"}
Mutexes == {"audioMutex", "mutex", "queueMutex", "ctxMutex", "workerMutex"}

\* the thread holding a mutex, or "none"
Holder(m) ==
    CASE m = "audioMutex"  -> ring.audioMutex
      [] m = "mutex"       -> proc.mutex
      [] m = "queueMutex"  -> stt.queueMutex
      [] m = "ctxMutex"    -> stt.ctxMutex
      [] m = "workerMutex" -> stt.workerMutex

HeldBy(t) == {m \in Mutexes : Holder(m) = t}

\* the mutex the next step of a thread acquires, or "none"
Wants(t) ==
    CASE t = "capture" ->
             IF ring.capturePc = "idle" /\ e2e.phase = "feeding" /\ e2e.fed < ScriptLen
             THEN "audioMutex" ELSE "none"
      [] t = "processor" ->
             IF stt.procPc = "ensure_locked" THEN "workerMutex"
             ELSE IF stt.procPc = "push" THEN "queueMutex"
             ELSE IF stt.procPc # "idle" THEN "none"
             ELSE IF proc.workerPc = "loop" /\ proc.running THEN "audioMutex"
             ELSE IF proc.workerPc = "state" THEN "mutex"
             ELSE "none"
      [] t = "worker" ->
             IF stt.workerPc = "wait" THEN "queueMutex"
             ELSE IF stt.workerPc = "process" THEN "ctxMutex"
             ELSE "none"
      [] t = "caller" ->
             IF stt.blockPc = "lock" THEN "ctxMutex" ELSE "none"
      [] t = "host" ->
             IF stt.hostPc = "stop_lock" THEN "workerMutex"
             ELSE IF stt.hostPc = "stop_clear" THEN "queueMutex"
             ELSE IF stt.hostPc = "stop_free" THEN "ctxMutex"
             ELSE IF stt.hostPc = "proc_stop_lock" THEN "mutex"
             ELSE IF stt.hostPc = "capture_stop_lock" THEN "audioMutex"
             ELSE "none"

\* C17: a thread about to acquire a pipeline mutex holds none, no thread
\* ever holds two, a thread inside a recognition call holds ctxMutex_ and
\* neither the ring mutex nor the queue mutex, and no thread waits for a
\* mutex whose holder itself waits for a mutex.
C17_LockDiscipline ==
    /\ \A t \in Threads : Wants(t) # "none" => HeldBy(t) = {}
    /\ \A t \in Threads : Cardinality(HeldBy(t)) <= 1
    /\ \A t \in InRecognition : HeldBy(t) = {"ctxMutex"}
    /\ \A t \in Threads :
           (Wants(t) # "none" /\ Holder(Wants(t)) # "none")
               => Wants(Holder(Wants(t))) = "none"

\* the worker is inside a recognition call while the processor thread has
\* taken the ring mutex, the caller of TranscribeBlocking() waits for
\* ctxMutex_ and the host, holding workerMutex_, waits in join()
C17_Witness ==
    /\ stt.workerPc = "recognizing"
    /\ ring.audioMutex = "processor"
    /\ Wants("caller") = "ctxMutex"
    /\ stt.hostPc = "stop_join"

(***************************************************************************)
(* SpecConv: the conversion of one float sample to 16 bits, as RunWorker   *)
(* and STTService::Transcribe(const float*, int) do it.  The sample is     *)
(* drawn from values below, inside and above [-1, 1].                      *)
(***************************************************************************)
ConvMax == 40000
ConvStep == 800
FullScale == 32768

ConvInputs ==
    {k * ConvStep - ConvMax : k \in 0..((2 * ConvMax) \div ConvStep)}
        \cup {-FullScale - 1, -FullScale, -FullScale + 1, -1, 1,
              FullScale - 1, FullScale, FullScale + 1}

InitConv ==
    /\ InitRest
    /\ stt = SttInit
    /\ \E s \in ConvInputs : conv = [ConvInit EXCEPT !.s = s]

\* RunWorker lines 212-219
AudioProcessorService_RunWorker_convert ==
    /\ conv.by = "none"
    /\ conv' = [conv EXCEPT !.pcm = FloatToPcm(conv.s), !.by = "RunWorker"]
    /\ UNCHANGED <<now, gateVars, ringVars, calVars, segVars, orchVars,
                   procVars, sttVars, e2e, rmsHist>>

\* STTService::Transcribe(const float*, int) lines 192-197
STTService_Transcribe_convert ==
    /\ conv.by = "none"
    /\ conv' = [conv EXCEPT !.pcm = FloatToPcm(conv.s), !.by = "Transcribe"]
    /\ UNCHANGED <<now, gateVars, ringVars, calVars, segVars, orchVars,
                   procVars, sttVars, e2e, rmsHist>>

NextConv ==
    \/ AudioProcessorService_RunWorker_convert
    \/ STTService_Transcribe_convert

SpecConv == InitConv /\ [][NextConv]_vars

\* C18: the converted value lies in [-32768, 32767], is positive for a
\* positive sample and negative for a negative one, and is 32767 for every
\* sample of 1.0 or more.
C18_ConversionClampsWithoutWrap ==
    conv.by # "none" =>
        /\ conv.pcm >= -FullScale /\ conv.pcm <= FullScale - 1
        /\ conv.s > 0 => conv.pcm > 0
        /\ conv.s < 0 => conv.pcm < 0
        /\ conv.s >= FullScale => conv.pcm = FullScale - 1

\* C19: the queue of the STT service is bounded by a fixed capacity: it
\* never holds all of MaxSttCalls submitted segments at once, that is, some
\* capacity below the number of segments submitted bounds it.
C19_QueueIsBounded == Len(stt.queue) < MaxSttCalls

(***************************************************************************)
(* SpecRingStart: the ring buffer with Start() running statement by        *)
(* statement while the producer and the consumer go on.  The calls under   *)
(* audioMutex_ stay single steps; Start() takes no lock, so they fall       *)
(* between its statements.  Stop() is called when no Start() is running;   *)
(* the producer runs once a Start() has brought it up.                     *)
(***************************************************************************)
InitRingStart == InitAll

RingOthersUnchanged ==
    UNCHANGED <<now, gateVars, calVars, segVars, orchVars, procVars, sttVars,
                e2e, conv, rmsHist>>

AudioCaptureService_Start_capacity ==
    /\ ring.startPc = "idle"
    /\ ring' = RingStart_capacity(ring)
    /\ ringHist' = [RingHistInit EXCEPT !.op = "start"]
    /\ RingOthersUnchanged

AudioCaptureService_Start_readIndex ==
    /\ ring.startPc = "readIndex"
    /\ ring' = RingStart_readIndex(ring)
    /\ UNCHANGED ringHist
    /\ RingOthersUnchanged

AudioCaptureService_Start_writeIndex ==
    /\ ring.startPc = "writeIndex"
    /\ ring' = RingStart_writeIndex(ring)
    /\ UNCHANGED ringHist
    /\ RingOthersUnchanged

AudioCaptureService_Start_available ==
    /\ ring.startPc = "available"
    /\ ring' = RingStart_available(ring)
    /\ UNCHANGED ringHist
    /\ RingOthersUnchanged

AudioCaptureService_Start_device ==
    \E ok \in BOOLEAN :
        /\ ring.startPc = "device"
        /\ ring' = RingStart_device(ring, ok)
        /\ UNCHANGED ringHist
        /\ RingOthersUnchanged

AudioCaptureService_Stop_afterStart ==
    /\ ring.startPc = "idle"
    /\ AudioCaptureService_Stop

\* the capture thread, which exists once a Start() has brought it up
CaptureThread_Enqueue ==
    /\ ring.initialized
    /\ AudioCaptureService_EnqueueAudioSamples

NextRingStart ==
    \/ AudioCaptureService_Start_capacity
    \/ AudioCaptureService_Start_readIndex
    \/ AudioCaptureService_Start_writeIndex
    \/ AudioCaptureService_Start_available
    \/ AudioCaptureService_Start_device
    \/ AudioCaptureService_Stop_afterStart
    \/ CaptureThread_Enqueue
    \/ AudioCaptureService_DequeueAudio

SpecRingStart == InitRingStart /\ [][NextRingStart]_vars

\* C20: whenever no Start() is in progress, available <= ringCapacity and,
\* for a ring of positive capacity, readIndex and writeIndex are positions
\* of the ring with (readIndex + available) mod ringCapacity = writeIndex.
C20_RingInvariant ==
    ring.startPc = "idle" =>
        /\ ring.available <= ring.ringCapacity
        /\ ring.ringCapacity > 0 =>
               /\ ring.readIndex \in 0..(ring.ringCapacity - 1)
               /\ ring.writeIndex \in 0..(ring.ringCapacity - 1)
               /\ (ring.readIndex + ring.available) % ring.ringCapacity
                      = ring.writeIndex

(***************************************************************************)
(* SpecRms: the RMS analyzer alone, its caller giving it frames of zero to *)
(* two samples, reading the RMS and resetting it in any order.             *)
(***************************************************************************)
MaxRmsObserved == 13

RmsSamples == {0, 8000}
RmsFrames == UNION {[1..n -> RmsSamples] : n \in 0..2}

InitRms == InitAll

RmsOthersUnchanged ==
    UNCHANGED <<now, gateVars, ringVars, calVars, segVars, orch, orchHist,
                procVars, sttVars, e2e, conv>>

RMSAnalyzer_update ==
    /\ \E frame \in RmsFrames :
          /\ Len(rmsHist.observed) + Len(frame) <= MaxRmsObserved
          /\ LET res == RmsUpdate(rmsAn, frame)
             IN  /\ rmsAn' = res.rmsAn
                 /\ rmsHist' = [observed |-> rmsHist.observed \o frame,
                                op |-> "update", returned |-> res.rms]
    /\ RmsOthersUnchanged

RMSAnalyzer_getRMS ==
    /\ rmsHist' = [rmsHist EXCEPT !.op = "getRMS",
                                  !.returned = computeRMS(rmsAn)]
    /\ UNCHANGED rmsAn
    /\ RmsOthersUnchanged

RMSAnalyzer_reset ==
    /\ rmsAn' = RmsReset(rmsAn)
    /\ rmsHist' = [observed |-> <<>>, op |-> "reset", returned |-> 0]
    /\ RmsOthersUnchanged

NextRms ==
    \/ RMSAnalyzer_update
    \/ RMSAnalyzer_getRMS
    \/ RMSAnalyzer_reset

SpecRms == InitRms /\ [][NextRms]_vars

\* C21: the window holds the most recent samples given to update() since
\* construction or the last reset(), at most windowSize of them; update()
\* and getRMS() return 0 while fewer than windowSize samples were given; and
\* after reset() the analyzer is as it was after construction.
C21_WarmUpWindow ==
    /\ Len(rmsAn.window) <= windowSize
    /\ rmsAn.window = LastN(rmsHist.observed, windowSize)
    /\ (rmsHist.op \in {"update", "getRMS"}
           /\ Len(rmsHist.observed) < windowSize) => rmsHist.returned = 0
    /\ rmsHist.op = "reset" => rmsAn = RmsInit

\* update() has returned a non-zero RMS from a window that has dropped its
\* oldest samples
C21_Witness ==
    /\ rmsHist.op = "update"
    /\ Len(rmsHist.observed) > windowSize
    /\ rmsHist.returned > 0
    /\ rmsAn.window # SubSeq(rmsHist.observed, 1, windowSize)

(***************************************************************************)
(* SpecE2EEarly: the end-to-end scenario, and the same scenario with the   *)
(* tone arriving from the first frame on, before the calibration window    *)
(* has passed.                                                             *)
(***************************************************************************)
EarlyLeads == {0, LeadSamples}

InitE2EEarly ==
    /\ gate = GateInit
    /\ \E lead \in EarlyLeads : e2e = [E2EInit EXCEPT !.lead = lead]
    /\ InitOthers /\ stt = SttInit /\ conv = ConvInit

SpecE2EEarly == InitE2EEarly /\ [][NextE2E]_vars

\* the orchestrator while its calibrator is not calibrated: the gate is not
\* speaking and has not been updated since start(), and no segment was
\* delivered since start()
OrchNotGating ==
    /\ ~gate.isSpeaking
    /\ gate.state = "SILENCE"
    /\ gate.lastUpdateTime = NoTime
    /\ orchHist.sinceStart = 0

\* C24: while the noise calibrator is not calibrated, no loop of the
\* pipeline is gating: the orchestrator's gate has not been updated since
\* start(), nothing is speaking (neither the orchestrator's gate nor the
\* processor loop) and no segment has been emitted since start, by the
\* orchestrator or by the processor loop.
C24_NoGatingBeforeCalibration ==
    ~cal.calibrated =>
        /\ OrchNotGating
        /\ ~proc.speaking
        /\ procHist.jobs = <<>>

(***************************************************************************)
(* SpecSTTWork: the STT service started and never stopped: Start() on the  *)
(* host thread, Transcribe calls of the audio-processor thread and the     *)
(* worker thread, every runnable thread scheduled again and again.         *)
(***************************************************************************)
NextSTTWork ==
    \/ STT_Start
    \/ STT_Start_workerFailed
    \/ STT_Start_available
    \/ STT_Transcribe
    \/ STT_EnqueuePcm_available
    \/ STT_EnsureWorkerStarted_check
    \/ STT_EnsureWorkerStarted_locked
    \/ STT_EnqueuePcm_push
    \/ STT_EnqueuePcm_notify
    \/ STT_WorkerLoop_top
    \/ STT_WorkerLoop_wait
    \/ STT_WorkerLoop_block
    \/ STT_WorkerLoop_spuriousWakeup
    \/ STT_WorkerLoop_afterWait
    \/ STT_WorkerLoop_process
    \/ STT_WorkerLoop_recognized

SpecSTTWork ==
    /\ InitSTT
    /\ [][NextSTTWork]_vars
    /\ SF_vars(HostProgress)
    /\ SF_vars(ProcessorProgress)
    /\ SF_vars(WorkerProgress)

\* C26: when Stop() is never called and the threads are scheduled fairly,
\* the n-th job that EnqueuePcm has accepted (the service running and
\* available) is eventually followed by the n-th submission of a job to the
\* recognition engine.
C26_EveryAcceptedJobIsRecognized ==
    \A n \in 1..MaxSttCalls :
        (Len(sttHist.enqueued) >= n) ~> (stt.recognitions >= n)

(***************************************************************************)
(* SpecProc: the loop of AudioProcessorService::RunWorker given frames     *)
(* that are silent or not, in any order with a bounded number of changes   *)
(* between the two.  Every sample is different, so that a chunk shows      *)
(* which samples it is made of.  The STT service is not started: a chunk   *)
(* handed to Transcribe() is dropped by EnqueuePcm.                        *)
(***************************************************************************)
MaxProcRun == 72
MaxProcSwitches == 3
MaxProcLoud == 10
ProcLoudBase == 1000

InitProc == InitAll

\* the frame that follows a run of n samples
ProcFrame(n, loud) ==
    [i \in 1..bufferSamples |-> (IF loud THEN ProcLoudBase ELSE 0) + n + i]

ProcOthersUnchanged ==
    UNCHANGED <<now, gateVars, ringVars, calVars, segVars, orchVars, e2e,
                conv, rmsHist>>

AudioProcessorService_Start ==
    /\ ~proc.running
    /\ proc' = ProcStart(proc)
    /\ procHist' = [procHist EXCEPT !.op = "Start"]
    /\ UNCHANGED sttVars
    /\ ProcOthersUnchanged

\* one iteration of the loop of RunWorker that dequeues a frame
AudioProcessorService_RunWorker ==
    \E loud \in BOOLEAN :
        LET frame    == ProcFrame(Len(procHist.run), loud)
            wasLoud  == procHist.run # <<>> /\ procHist.spoken = procHist.run
            switched == procHist.run # <<>> /\ loud # wasLoud
            res      == ProcessBuffer(proc, frame)
            pcm      == IF res.shouldTranscribe /\ res.completedChunk # <<>>
                        THEN Dispatch(res.completedChunk) ELSE <<>>
            run1     == procHist.run \o frame
            ended    == proc.speaking /\ ~res.proc.speaking
        IN  /\ proc.running
            /\ stt.procPc = "idle"
            /\ procHist.chunk = <<>>
            /\ procHist.dropped = 0
            /\ Len(run1) <= MaxProcRun
            /\ Len(SelectSeq(run1, LAMBDA x : x > ProcLoudBase)) <= MaxProcLoud
            /\ procHist.switches + (IF switched THEN 1 ELSE 0) <= MaxProcSwitches
            /\ proc' = res.proc
            /\ stt' = IF pcm # <<>> THEN SttTranscribe(stt, Len(pcm)) ELSE stt
            /\ procHist' =
                 [procHist EXCEPT
                     !.op = "RunWorker",
                     !.jobs = IF pcm # <<>> THEN Append(@, Len(res.completedChunk))
                              ELSE @,
                     !.dropped = @ + (IF res.dropped THEN 1 ELSE 0),
                     !.run = IF ended \/ (~proc.speaking /\ ~loud) THEN <<>>
                             ELSE run1,
                     !.spoken = IF ended \/ (~proc.speaking /\ ~loud) THEN <<>>
                                ELSE IF loud THEN run1 ELSE @,
                     !.switches = IF ended \/ (~proc.speaking /\ ~loud) THEN 0
                                  ELSE @ + (IF switched THEN 1 ELSE 0),
                     !.chunk = IF ended THEN res.completedChunk ELSE @,
                     !.chunkSpoken = IF ended /\ res.completedChunk # <<>>
                                     THEN procHist.spoken ELSE @]
            /\ UNCHANGED sttHist
            /\ ProcOthersUnchanged

NextProc ==
    \/ AudioProcessorService_Start
    \/ AudioProcessorService_RunWorker
    \/ STT_EnqueuePcm_available

SpecProc == InitProc /\ [][NextProc]_vars

\* C27: a completed chunk begins with every sample dequeued from the onset
\* of its utterance up to its last non-silent frame, pauses included, in
\* the order captured.
C27_SegmentIsContiguous ==
    procHist.chunk # <<>> =>
        IsPrefix(procHist.chunkSpoken, procHist.chunk)

====
